---------------------------- MODULE Spec2Model ----------------------------
(***************************************************************************)
(* A model of the data-plane entry points of micro-segment:                *)
(*   internal/dp/dpi/dpi_entry.c   dpi_recv_packet, dpi_inject_reset_...   *)
(*   internal/dp/main.c            net_run, main                           *)
(*                                                                         *)
(* One worker thread is modelled while it runs dpi_recv_packet on one      *)
(* frame after the other.  The function is cut into the blocks of its      *)
(* source, one action per block; the calls a block makes are appended to   *)
(* the per-call log `ev` in program order, so that the order of            *)
(* rcu_read_lock / lookup / send_packet / rcu_read_unlock is part of the   *)
(* state.                                                                  *)
(***************************************************************************)
EXTENDS Integers, Sequences, FiniteSets, TLC

(***************************************************************************)
(* Program constants.                                                      *)
(***************************************************************************)
DPI_ACTION_NONE == 0
DPI_ACTION_ALLOW == 1
DPI_ACTION_DROP == 2
DPI_ACTION_RESET == 3
DPI_ACTION_BYPASS == 4
DPI_ACTION_BLOCK == 5
DPI_ACTION_MAX == 6

\* sizeof(struct ethhdr)
ETH_HLEN == 14

\* "NeuV" and "lkst" as the four octets the uint32_t comparison reads
MAC_PREFIX == <<78, 101, 117, 86>>
PROXYMESH_MAC_PREFIX == <<108, 107, 115, 116>>

Actions == DPI_ACTION_NONE .. (DPI_ACTION_MAX - 1)

(***************************************************************************)
(* The MAC addresses of the model, as six octets.                          *)
(*   MacPlain  02:00:00:00:00:01  the workload's own MAC (ep->mac)         *)
(*   MacNeuV   "NeuV" 00:01       its unicast alias (ep->ucmac)            *)
(*   MacProxy  "lkst" 00:01       the MAC of a proxymesh endpoint          *)
(*   MacPeer   02:00:00:00:00:09  a peer that is no workload               *)
(*   MacGone   "NeuV" 00:09       the alias of a workload that was removed *)
(*   MacMcast  01:00:5e:00:00:01  an IPv4 multicast group address          *)
(*   MacBcast  ff:ff:ff:ff:ff:ff                                           *)
(***************************************************************************)
MacPlain == <<2, 0, 0, 0, 0, 1>>
MacNeuV == <<78, 101, 117, 86, 0, 1>>
MacProxy == <<108, 107, 115, 116, 0, 1>>
MacPeer == <<2, 0, 0, 0, 0, 9>>
MacGone == <<78, 101, 117, 86, 0, 9>>
MacMcast == <<1, 0, 94, 0, 0, 1>>
MacBcast == <<255, 255, 255, 255, 255, 255>>
NoMac == <<>>

\* the addresses a frame may carry, and the ones an io_ctx_t may name
SrcMacs == {MacPlain, MacNeuV, MacPeer, MacGone}
DstMacs == {MacPlain, MacNeuV, MacPeer, MacGone, MacMcast, MacBcast}
CtxMacs == {MacPlain, MacProxy}

\* the captured frame lengths of the model: one shorter than an Ethernet
\* header, one regular
ShortLen == 10
FullLen == 60
FrameLens == {ShortLen, FullLen}

(***************************************************************************)
(* Endpoints.  E1 is a workload with MacPlain and the alias MacNeuV, E2 a  *)
(* proxymesh workload; "dummy" is g_io_config->dummy_mac.ep.               *)
(***************************************************************************)
NoEp == "none"
EPs == {"E1", "E2"}
DummyEp == "dummy"

\* g_ep_map: MAC -> io_mac_t, with the endpoint each record points to
g_ep_map == (MacPlain :> "E1") @@ (MacNeuV :> "E1") @@ (MacProxy :> "E2")

\* ep->mac of every endpoint: the workload's own address
ep_mac_of == ("E1" :> MacPlain) @@ ("E2" :> MacProxy)

\* rcu_map_lookup(&g_ep_map, key): the record's key, or NULL
EpMapLookup(key) == IF key \in DOMAIN g_ep_map THEN key ELSE NoMac

VARIABLES
    pc,           \* the block of dpi_recv_packet the worker is at
    ctx,          \* io_ctx_t *ctx of the call
    frame,        \* (ptr, len) of the call
    eth,          \* struct ethhdr *eth, the header the L2 block reads
    mac,          \* io_mac_t *mac of the L2 block (the record's key)
    lkey,         \* the key given to rcu_map_lookup by the L2 block
    promisc,      \* g_io_config->promisc
    ep_tap,       \* ep->tap of every endpoint
    action,       \* int action
    tap,          \* bool tap
    inspect,      \* bool inspect
    isproxymesh,  \* bool isproxymesh
    th_packet,    \* the thread's dpi_packet_t
    hdr,          \* the L3/L4 header fields read so far
    ev,           \* the calls made by the current dpi_recv_packet, in order
    sent,         \* the (ptr, len) pairs given to send_packet by the call
    ret,          \* the value returned, -1 while the call runs
    retline,      \* the source line of the return statement taken, 0 before
    app_map,      \* ep->app_map of every endpoint: (port, ip_proto) -> record
    inj,          \* the arguments of the last dpi_inject_reset_by_session
    rst_out,      \* the (ctx, buffer, len) it gave to send_packet
    dirq,         \* the last call of a direction heuristic: inputs, result
    app_ports,    \* ep->app_ports of every endpoint
    app_updated,  \* ep->app_updated of every endpoint
    appq,         \* the last call of a dpi_ep_* function: session, arguments
    rpc,          \* the statement of main / net_run the main thread is at
    run_arg,      \* the argument given with -n, NoArg without the option
    ncpu,         \* the value count_cpu() returned, 0 before the call
    g_dp_threads, \* int g_dp_threads
    g_running,    \* int g_running
    handlers,     \* the signals whose handler net_run has installed
    g_callback,   \* io_callback_t g_callback, a field is NULL or a function
    g_io_callback, \* the engine's io_callback_t *g_io_callback
    thr,          \* every thread of net_run: not created, running, exited
    thr_create,   \* bool thr_create[MAX_DP_THREADS]
    joined,       \* the threads pthread_join has returned for, in order
    run_i,        \* int i of net_run
    run_ret,      \* <<the value main returned>>, NoRet before
    g_policy,     \* the six g_* policy configuration values
    th_policy,    \* their thread-local copies th_*
    polq,         \* the worker's position in a packet and the value it read
    stats_slot,   \* ctx->stats_slot, the slot the IO layer is at
    cur_slot,     \* cur_slot of every endpoint's stats and of th_stats
    ipq,          \* the last call of dpi_is_ip4_internal: inputs, result
    th_snap,      \* th_snap of the thread that calls dpi_timeout
    th_timer,     \* th_timer, the timer wheel of that thread
    tmq,          \* dpi_timeout: the statement reached, the calls so far
    wk,           \* every worker inside ep_app_map_locate: statement, locals
    shared_ep     \* the endpoint the workers share: map nodes, app_ports

vars == <<pc, ctx, frame, eth, mac, lkey, promisc, ep_tap, action, tap, inspect,
          isproxymesh, th_packet, hdr, ev, sent, ret, retline, app_map,
          inj, rst_out, dirq, app_ports, app_updated, appq,
          rpc, run_arg, ncpu, g_dp_threads, g_running, handlers, g_callback,
          g_io_callback, thr, thr_create, joined, run_i, run_ret,
          g_policy, th_policy, polq, stats_slot, cur_slot,
          ipq, th_snap, th_timer, tmq, wk, shared_ep>>

\* the state of the worker's dpi_recv_packet, of the reset actuator and
\* of the direction heuristics called on their own
pktVars == <<pc, ctx, frame, eth, mac, lkey, promisc, ep_tap, action, tap,
             inspect, isproxymesh, th_packet, hdr, ev, sent, ret, retline,
             stats_slot, cur_slot>>
recvVars == <<pktVars, app_map>>
appVars == <<app_ports, app_updated, appq>>
runVars == <<rpc, run_arg, ncpu, g_dp_threads, g_running, handlers,
             g_callback, g_io_callback, thr, thr_create, joined, run_i,
             run_ret>>
polVars == <<g_policy, th_policy, polq>>
extVars == <<ipq, th_snap, th_timer, tmq, wk, shared_ep>>
resetVars == <<inj, rst_out, dirq, appVars, runVars, polVars, extVars>>
actuatorVars == <<inj, rst_out>>


(***************************************************************************)
(* Helpers of utils/helper.h and the packet flags of dpi/dpi_module.h.     *)
(***************************************************************************)
\* true when the two addresses are the same six octets
mac_cmp(m1, m2) == m1 = m2

\* the group bit of the first octet: multicast or broadcast
is_mac_m_b_cast(m) == m[1] % 2 = 1

\* *(uint32_t *)m1 == *(uint32_t *)prefix : the first four octets
cmp_mac_prefix(m1, prefix) ==
    IF m1 = NoMac \/ prefix = <<>> THEN FALSE
    ELSE SubSeq(m1, 1, 4) = SubSeq(prefix, 1, 4)

DPI_PKT_FLAG_INGRESS == "INGRESS"
DPI_PKT_FLAG_FAKE_EP == "FAKE_EP"

(***************************************************************************)
(* The inputs of a call.                                                   *)
(***************************************************************************)
CtxSet == [tc : BOOLEAN, quar : BOOLEAN, nfq : BOOLEAN, tap : BOOLEAN,
           ep_mac : CtxMacs]

NoEth == [h_source |-> NoMac, h_dest |-> NoMac]
NoHdr == [read |-> FALSE, saddr |-> 0, daddr |-> 0, sport |-> 0, dport |-> 0,
          ip_proto |-> 0]

\* memset(&th_packet, 0, offsetof(dpi_packet_t, EOZ)) and the three
\* assignments that follow it
ZeroPacket(f) ==
    [pkt |-> f.ptr, cap_len |-> f.len, flags |-> {}, ep |-> NoEp,
     ep_mac |-> NoMac, all_metry |-> "none", frag_trac |-> FALSE,
     eth_type |-> "none"]

(***************************************************************************)
(* Addresses as the octets on the wire (network byte order).  ntohl gives  *)
(* the host-order number the IN_MULTICAST and loopback tests read.         *)
(***************************************************************************)
Ip4Ep == <<10, 1, 1, 1>>
Ip4Peer == <<8, 8, 8, 8>>
Ip4Loop == <<127, 0, 0, 1>>
Ip4Mcast == <<224, 0, 0, 1>>
Ip4Bcast == <<255, 255, 255, 255>>

\* a host-order 32-bit number is kept as its two 16-bit halves, high first
ntohl(a) == <<a[1] * 256 + a[2], a[3] * 256 + a[4]>>
htonl(n) == <<n[1] \div 256, n[1] % 256, n[2] \div 256, n[2] % 256>>

\* 0xffffffff and 0x7f000001
INADDR_BROADCAST == <<65535, 65535>>
INADDR_LOOPBACK == <<32512, 1>>
\* (a & 0xf0000000) == 0xe0000000
IN_MULTICAST(n) == n[1] \div 4096 = 14
\* (a & 0xff000000) == 0x7f000000
IS_IN_LOOPBACK(n) == n[1] \div 256 = 127

Ip6Ep == <<32, 1, 13, 184, 0, 0, 0, 0, 0, 0, 0, 0, 0, 0, 0, 1>>
Ip6Mcast == <<255, 2, 0, 0, 0, 0, 0, 0, 0, 0, 0, 0, 0, 0, 0, 1>>
in6addr_loopback == <<0, 0, 0, 0, 0, 0, 0, 0, 0, 0, 0, 0, 0, 0, 0, 1>>
\* the first octet is 0xff
IN6_IS_ADDR_MULTICAST(a) == a[1] = 255

IPPROTO_TCP == 6
IPPROTO_UDP == 17
PortDns == 53
PortHigh == 34000

\* the (sport, dport) pairs of the model
PortPairs == {<<PortDns, PortHigh>>, <<PortHigh, PortDns>>,
              <<PortHigh, PortHigh>>}

FlowSet(srcs, dsts, pairs, protos) ==
    {[read |-> TRUE, saddr |-> sa, daddr |-> da, sport |-> pp[1],
      dport |-> pp[2], ip_proto |-> pr] :
        sa \in srcs, da \in dsts, pp \in pairs, pr \in protos}

\* the L3/L4 header fields a decoded packet may carry, per ethertype; a
\* frame that is not IP has no ports, and whatever the IPv6 view reads
Flows(eth_type) ==
    CASE eth_type = "IP" ->
           FlowSet({Ip4Ep, Ip4Peer}, {Ip4Ep, Ip4Peer, Ip4Loop, Ip4Mcast},
                   PortPairs, {IPPROTO_UDP})
      [] eth_type = "IPV6" ->
           FlowSet({Ip6Ep}, {Ip6Ep, in6addr_loopback, Ip6Mcast},
                   PortPairs, {IPPROTO_UDP})
      [] OTHER ->
           FlowSet({Ip6Ep}, {Ip6Ep, in6addr_loopback}, {<<0, 0>>}, {0})

\* the same, for a packet of which only the destination address is read
DstFlows(eth_type) ==
    CASE eth_type = "IP" ->
           FlowSet({Ip4Peer}, {Ip4Ep, Ip4Mcast, Ip4Bcast},
                   {<<PortHigh, PortDns>>}, {IPPROTO_UDP})
      [] eth_type = "IPV6" ->
           FlowSet({Ip6Ep}, {Ip6Ep, Ip6Mcast},
                   {<<PortHigh, PortDns>>}, {IPPROTO_UDP})
      [] OTHER -> {NoHdr}

\* ep->pips of every endpoint (an empty list: NULL)
ep_pips == ("E1" :> <<Ip4Ep>>) @@ ("E2" :> <<>>) @@ (DummyEp :> <<>>)

APP_SRC_CTRL == 1
APP_SRC_DP == 2

\* the application maps at start: E1 listens on 53/udp, as configured by
\* the control plane
InitAppMap ==
    ("E1" :> (<<PortDns, IPPROTO_UDP>> :>
                 [proto |-> 1, server |-> 1, application |-> 0,
                  version |-> <<>>, src |-> APP_SRC_CTRL]))
    @@ ("E2" :> <<>>) @@ (DummyEp :> <<>>)

NoInject == [called |-> FALSE]
NoDir == [fn |-> "none"]
NoApp == [fn |-> "none"]

\* main and net_run: the data threads are numbered from 0 and the timer
\* thread is TimerThr; the pointers and return values not yet set
MAX_DP_THREADS == 3
TimerThr == 0 - 1
ThreadIds == {TimerThr} \cup (0 .. (MAX_DP_THREADS - 1))
NULL == "NULL"
NoArg == <<>>
NoRet == <<>>
Callbacks == {"debug", "send_packet", "send_ctrl_json", "send_ctrl_binary",
              "threat_log", "traffic_log", "connect_report"}

\* the policy configuration copied at the head of dpi_recv_packet
PolicyNames == {"internal_subnet4", "policy_addr", "specialip_subnet4",
                "xff_enabled", "disable_net_policy", "detect_unmanaged_wl"}
NoPol == [pc |-> "idle"]

Count(log, op) == Cardinality({i \in DOMAIN log : log[i] = op})

\* no call of dpi_is_ip4_internal yet
NoIpq == [ip |-> <<>>]

\* timer_wheel_init (dpi_init, line 93): a wheel that is not started
timer_wheel_init == [started |-> FALSE, current |-> 0, starts |-> <<>>]

\* the worker threads that share one endpoint
Workers == 1 .. 2
IdleWorker == [pc |-> "idle", port |-> 0, ports |-> 0]

\* the last value of ctx->stats_slot the model follows
MaxSlot == 1

\* the objects holding a cur_slot: every endpoint's stats and th_stats
StatsOwners == EPs \cup {DummyEp, "th_stats"}

Init ==
    /\ pc = "idle"
    /\ ctx = [tc |-> FALSE, quar |-> FALSE, nfq |-> FALSE, tap |-> FALSE,
              ep_mac |-> MacPlain]
    /\ frame = [ptr |-> "pkt", len |-> FullLen]
    /\ eth = NoEth
    /\ mac = NoMac
    /\ lkey = NoMac
    /\ promisc \in BOOLEAN
    /\ ep_tap \in [EPs -> BOOLEAN]
    /\ action = -1
    /\ tap = FALSE
    /\ inspect = TRUE
    /\ isproxymesh = FALSE
    /\ th_packet = ZeroPacket([ptr |-> "pkt", len |-> FullLen])
    /\ hdr = NoHdr
    /\ ev = <<>>
    /\ sent = <<>>
    /\ ret = -1
    /\ retline = 0
    /\ app_map = InitAppMap
    /\ inj = NoInject
    /\ rst_out = <<>>
    /\ dirq = NoDir
    /\ app_ports = [e \in DOMAIN InitAppMap |-> Cardinality(DOMAIN InitAppMap[e])]
    /\ app_updated = [e \in DOMAIN InitAppMap |-> 0]
    /\ appq = NoApp
    /\ rpc = "main"
    /\ run_arg = NoArg
    /\ ncpu = 0
    /\ g_dp_threads = 0
    /\ g_running = FALSE
    /\ handlers = {}
    /\ g_callback = [f \in Callbacks |-> NULL]
    /\ g_io_callback = NULL
    /\ thr = [t \in ThreadIds |-> "none"]
    /\ thr_create = [i \in 0 .. (MAX_DP_THREADS - 1) |-> FALSE]
    /\ joined = <<>>
    /\ run_i = 0
    /\ run_ret = NoRet
    /\ g_policy = [n \in PolicyNames |-> 0]
    /\ stats_slot = 0
    /\ cur_slot = [o \in StatsOwners |-> 0]
    /\ ipq = NoIpq
    /\ th_snap = [tick |-> 0]
    /\ th_timer = timer_wheel_init
    /\ tmq = [pc |-> "idle", tick |-> 0, calls |-> 0, ev |-> <<>>,
              first |-> <<>>]
    /\ wk = [w \in Workers |-> IdleWorker]
    /\ shared_ep = [nodes |-> <<>>, app_ports |-> 0]
    /\ th_policy = [n \in PolicyNames |-> 0]
    /\ polq = NoPol

(***************************************************************************)
(* dpi_recv_packet, lines 521-544: the locals, the reset of th_packet,     *)
(* rcu_read_lock().                                                        *)
(***************************************************************************)
RecvEnter ==
    /\ pc = "idle"
    /\ UNCHANGED resetVars
    /\ UNCHANGED <<stats_slot, cur_slot>>
    /\ \E c \in CtxSet, n \in FrameLens :
          /\ ctx' = c
          /\ frame' = [ptr |-> "pkt", len |-> n]
          /\ th_packet' = ZeroPacket([ptr |-> "pkt", len |-> n])
    /\ eth' = NoEth
    /\ mac' = NoMac
    /\ lkey' = NoMac
    /\ action' = -1
    /\ tap' = FALSE
    /\ inspect' = TRUE
    /\ isproxymesh' = FALSE
    /\ hdr' = NoHdr
    /\ ev' = <<"rcu_read_lock">>
    /\ sent' = <<>>
    /\ ret' = -1
    /\ retline' = 0
    /\ pc' = "l2"
    /\ UNCHANGED <<promisc, ep_tap, app_map>>

(***************************************************************************)
(* Lines 551-603: the rule that picks the key of the g_ep_map lookup.      *)
(* key = NoMac: no rule applied and no lookup is made.                     *)
(***************************************************************************)
\* lines 570-575, a plausible slip: the destination tested first
NonTcRule_DstFirst(c, e) ==
    IF mac_cmp(e.h_dest, c.ep_mac)
    THEN [rule |-> "nontc_dst", key |-> e.h_dest, ingress |-> TRUE,
          proxymesh |-> FALSE]
    ELSE IF mac_cmp(e.h_source, c.ep_mac)
    THEN [rule |-> "nontc_src", key |-> e.h_source, ingress |-> FALSE,
          proxymesh |-> FALSE]
    ELSE [rule |-> "none", key |-> NoMac, ingress |-> FALSE,
          proxymesh |-> FALSE]

\* lines 570-575: non-TC mode, the source MAC first
NonTcRule(c, e) ==
    IF mac_cmp(e.h_source, c.ep_mac)
    THEN [rule |-> "nontc_src", key |-> e.h_source, ingress |-> FALSE,
          proxymesh |-> FALSE]
    ELSE IF mac_cmp(e.h_dest, c.ep_mac)
    THEN [rule |-> "nontc_dst", key |-> e.h_dest, ingress |-> TRUE,
          proxymesh |-> FALSE]
    ELSE [rule |-> "none", key |-> NoMac, ingress |-> FALSE,
          proxymesh |-> FALSE]

NoRule == [rule |-> "none", key |-> NoMac, ingress |-> FALSE,
           proxymesh |-> FALSE]

\* lines 576-581, a plausible slip: the destination prefix tested first
NeuVRule_DstFirst(c, e) ==
    IF cmp_mac_prefix(e.h_dest, MAC_PREFIX)
    THEN [rule |-> "tc_dst", key |-> e.h_dest, ingress |-> TRUE,
          proxymesh |-> FALSE]
    ELSE IF cmp_mac_prefix(e.h_source, MAC_PREFIX)
    THEN [rule |-> "tc_src", key |-> e.h_source, ingress |-> FALSE,
          proxymesh |-> FALSE]
    ELSE NoRule

\* lines 576-581: TC mode, the "NeuV" prefix of the source MAC first
NeuVRule(c, e) ==
    IF cmp_mac_prefix(e.h_source, MAC_PREFIX)
    THEN [rule |-> "tc_src", key |-> e.h_source, ingress |-> FALSE,
          proxymesh |-> FALSE]
    ELSE IF cmp_mac_prefix(e.h_dest, MAC_PREFIX)
    THEN [rule |-> "tc_dst", key |-> e.h_dest, ingress |-> TRUE,
          proxymesh |-> FALSE]
    ELSE NoRule

\* lines 582-588, a plausible slip: the source tested first, as in the
\* non-TC rule
TapPortRule_SrcFirst(c, e) ==
    IF mac_cmp(e.h_source, c.ep_mac)
    THEN [rule |-> "tap_src", key |-> e.h_source, ingress |-> FALSE,
          proxymesh |-> FALSE]
    ELSE IF mac_cmp(e.h_dest, c.ep_mac)
    THEN [rule |-> "tap_dst", key |-> e.h_dest, ingress |-> TRUE,
          proxymesh |-> FALSE]
    ELSE NoRule

\* lines 582-588: a tapped port, the destination MAC first
TapPortRule(c, e) ==
    IF mac_cmp(e.h_dest, c.ep_mac)
    THEN [rule |-> "tap_dst", key |-> e.h_dest, ingress |-> TRUE,
          proxymesh |-> FALSE]
    ELSE IF mac_cmp(e.h_source, c.ep_mac)
    THEN [rule |-> "tap_src", key |-> e.h_source, ingress |-> FALSE,
          proxymesh |-> FALSE]
    ELSE NoRule

\* lines 589-603: the proxymesh sidecar, then the NFQ endpoint
CtxMacRule(c, e) ==
    IF cmp_mac_prefix(c.ep_mac, PROXYMESH_MAC_PREFIX)
    THEN [rule |-> "proxymesh", key |-> c.ep_mac, ingress |-> FALSE,
          proxymesh |-> TRUE]
    ELSE IF c.nfq
    THEN [rule |-> "nfq", key |-> c.ep_mac, ingress |-> FALSE,
          proxymesh |-> FALSE]
    ELSE NoRule

\* the chain with the non-TC block falling through to the TC rules
ResolveRule_FallThrough(c, e) ==
    IF ~c.tc /\ NonTcRule(c, e) # NoRule THEN NonTcRule(c, e)
    ELSE IF NeuVRule(c, e) # NoRule THEN NeuVRule(c, e)
    ELSE IF TapPortRule(c, e) # NoRule THEN TapPortRule(c, e)
    ELSE CtxMacRule(c, e)

\* lines 551-603: the else-if chain as a whole
ResolveRule(c, e) ==
    IF ~c.tc THEN NonTcRule(c, e)
    ELSE IF NeuVRule(c, e) # NoRule THEN NeuVRule(c, e)
    ELSE IF TapPortRule(c, e) # NoRule THEN TapPortRule(c, e)
    ELSE CtxMacRule(c, e)

\* a return statement: the value, its line, and the end of the call
Return(v, line) ==
    /\ ret' = v
    /\ retline' = line
    /\ pc' = "done"

(***************************************************************************)
(* Lines 546-603: the L2 block up to the lookup.  A frame shorter than an  *)
(* Ethernet header skips the block.  In non-TC mode a multicast or         *)
(* broadcast destination is forwarded raw (bypassed under NFQ) and a       *)
(* quarantined context returns 1.  (The lazy creation of the thread's      *)
(* proxymesh session map, lines 597-599, touches no state read here.)      *)
(***************************************************************************)
\* line 555, a plausible slip: the frame is sent under NFQ too
BypassNfq_Never == FALSE

\* line 555: under NFQ the bypass is the accept verdict alone
BypassNfq == ~tap /\ ctx.nfq

\* lines 551 and 565: a quarantined context of non-TC mode
Quarantined_Never(c) == FALSE

Quarantined(c) == ~c.tc /\ c.quar

RecvLookup ==
    /\ pc = "l2"
    /\ UNCHANGED resetVars
    /\ UNCHANGED <<stats_slot, cur_slot>>
    /\ IF th_packet.cap_len < ETH_HLEN
       THEN /\ pc' = "parse"
            /\ UNCHANGED <<eth, mac, lkey, isproxymesh, th_packet, ev, sent,
                           ret, retline>>
       ELSE \E s \in SrcMacs, d \in DstMacs :
            LET e == [h_source |-> s, h_dest |-> d]
                r == ResolveRule(ctx, e)
            IN  /\ eth' = e
                /\ IF ~ctx.tc /\ is_mac_m_b_cast(e.h_dest)
                   THEN /\ IF BypassNfq
                           THEN /\ ev' = Append(ev, "rcu_read_unlock")
                                /\ sent' = sent
                                /\ Return(0, 557)
                           ELSE /\ ev' = ev \o <<"rcu_read_unlock",
                                                 "send_packet">>
                                /\ sent' = Append(sent, frame)
                                /\ Return(0, 560)
                        /\ UNCHANGED <<mac, lkey, isproxymesh, th_packet>>
                   ELSE IF Quarantined(ctx)
                   THEN /\ ev' = Append(ev, "rcu_read_unlock")
                        /\ Return(1, 567)
                        /\ UNCHANGED <<mac, lkey, isproxymesh, th_packet,
                                       sent>>
                   ELSE /\ mac' = IF r.key = NoMac THEN NoMac
                                  ELSE EpMapLookup(r.key)
                        /\ lkey' = r.key
                        /\ isproxymesh' = r.proxymesh
                        /\ th_packet' =
                             IF r.ingress
                             THEN [th_packet EXCEPT !.flags =
                                      @ \cup {DPI_PKT_FLAG_INGRESS}]
                             ELSE th_packet
                        /\ ev' = ev
                                 \o (IF r.key = NoMac THEN <<>>
                                     ELSE <<"rcu_map_lookup">>)
                        /\ pc' = "ep"
                        /\ UNCHANGED <<sent, ret, retline>>
    /\ UNCHANGED <<ctx, frame, promisc, ep_tap, action, tap, inspect, hdr,
                   app_map>>

\* the stats wing a packet is counted in (lines 624-630 and 684-690)
MetryWing(flags) == IF DPI_PKT_FLAG_INGRESS \in flags THEN "in" ELSE "out"

\* lines 632-639 and 692-699: count the packet in the wing chosen
StatsUpdate == <<"dpi_inc_stats_packet">>

\* dpi_catch_stats_slot left out: cur_slot stays behind
CatchSlots_Never(cur, ep, slot) == cur

\* lines 633-638 and 693-698: the endpoint's stats and the thread's stats
\* are brought to ctx->stats_slot when their cur_slot differs from it
CatchSlots(cur, ep, slot) ==
    [o \in DOMAIN cur |->
        IF o \in {ep, "th_stats"} /\ cur[o] # slot THEN slot ELSE cur[o]]

(***************************************************************************)
(* Lines 604-658: the resolved endpoint, the promiscuous dummy endpoint,   *)
(* or the return for a frame of no workload.  eth and mac go out of scope  *)
(* at the end of the block.                                                *)
(***************************************************************************)
\* line 605, a plausible slip: ep->tap is not read
EndpointTap_Ignored(m) == FALSE

\* line 605: tap = mac->ep->tap
EndpointTap(m) == ep_tap[g_ep_map[m]]

\* line 641, a plausible slip: the dummy endpoint whatever the configuration
PromiscFallback_Always == TRUE

\* line 641: g_io_config->promisc
PromiscFallback == promisc

RecvEndpoint ==
    /\ pc = "ep"
    /\ UNCHANGED resetVars
    /\ UNCHANGED stats_slot
    /\ IF mac # NoMac
       THEN /\ tap' = EndpointTap(mac)
            /\ th_packet' =
                 [th_packet EXCEPT
                    !.ep = g_ep_map[mac],
                    !.ep_mac = ep_mac_of[g_ep_map[mac]],
                    !.all_metry = IF ~isproxymesh /\ ~ctx.nfq
                                  THEN MetryWing(th_packet.flags) ELSE @]
            /\ ev' = ev \o <<"deref_ep">>
                        \o (IF ~isproxymesh /\ ~ctx.nfq
                            THEN StatsUpdate
                            ELSE <<>>)
            /\ cur_slot' = IF ~isproxymesh /\ ~ctx.nfq
                           THEN CatchSlots(cur_slot, g_ep_map[mac], stats_slot)
                           ELSE cur_slot
            /\ pc' = "parse"
            /\ UNCHANGED <<ret, retline>>
       ELSE IF PromiscFallback
       THEN /\ tap' = ctx.tap
            /\ th_packet' =
                 [th_packet EXCEPT
                    !.flags = @ \cup {DPI_PKT_FLAG_INGRESS,
                                      DPI_PKT_FLAG_FAKE_EP},
                    !.ep = DummyEp,
                    !.all_metry = "in"]
            /\ ev' = ev
            /\ pc' = "parse"
            /\ UNCHANGED <<ret, retline, cur_slot>>
       ELSE /\ ev' = Append(ev, "rcu_read_unlock")
            /\ Return(0, 655)
            /\ UNCHANGED <<tap, th_packet, cur_slot>>
    /\ eth' = NoEth
    /\ mac' = NoMac
    /\ lkey' = NoMac
    /\ UNCHANGED <<ctx, frame, promisc, ep_tap, action, inspect, isproxymesh,
                   hdr, sent, app_map>>


(***************************************************************************)
(* dpi_parse_ethernet (dpi/dpi_packet.c): the actions the decoder may      *)
(* return.  A frame that fails the bounds check of the Ethernet header is  *)
(* rejected.                                                               *)
(***************************************************************************)
\* a decoder without the bounds check of the Ethernet header
dpi_parse_ethernet_NoBounds(p) == Actions

dpi_parse_ethernet(p) ==
    IF p.cap_len < ETH_HLEN THEN {DPI_ACTION_DROP} ELSE Actions

EthTypes == {"IP", "IPV6", "OTHER"}

\* line 663, a plausible slip: RESET is not tested
DecodeDrop_NoReset(a) == a = DPI_ACTION_DROP

\* line 663: the decoder's verdicts that end the call
DecodeDrop(a) == a = DPI_ACTION_DROP \/ a = DPI_ACTION_RESET

(***************************************************************************)
(* Lines 660-671: decode.  The decoder sets the ethertype and may attach   *)
(* a fragment tracker (IPv4).  On DROP or RESET the call ends: unlock,     *)
(* discard the tracker, return 0.                                          *)
(***************************************************************************)
RecvParse ==
    /\ pc = "parse"
    /\ UNCHANGED resetVars
    /\ UNCHANGED <<stats_slot, cur_slot>>
    /\ \E a \in dpi_parse_ethernet(th_packet), et \in EthTypes,
          fr \in BOOLEAN :
          /\ fr => et = "IP"
          /\ th_packet.cap_len < ETH_HLEN => (et = "OTHER" /\ ~fr)
          /\ action' = a
          /\ th_packet' = [th_packet EXCEPT !.eth_type = et,
                                            !.frag_trac = fr]
          /\ IF DecodeDrop(a)
             THEN /\ ev' = ev \o <<"dpi_parse_ethernet", "rcu_read_unlock">>
                            \o (IF fr THEN <<"dpi_frag_discard">> ELSE <<>>)
                  /\ Return(0, 670)
             ELSE /\ ev' = Append(ev, "dpi_parse_ethernet")
                  /\ pc' = "dir"
                  /\ UNCHANGED <<ret, retline>>
    /\ UNCHANGED <<ctx, frame, eth, mac, lkey, promisc, ep_tap, tap, inspect,
                   isproxymesh, hdr, sent,
                   app_map>>

\* rcu_map_lookup(&ep->app_map, &key) != NULL, key = (port, ip_proto)
AppLookup(apps, port, ip_proto) == <<port, ip_proto>> \in DOMAIN apps

\* dpi_ep_app_map_lookup(ep, port, ip_proto) != NULL
dpi_ep_app_map_lookup(ep, port, ip_proto) ==
    AppLookup(app_map[ep], port, ip_proto)

\* lines 472-478, a plausible slip: the source address compared first
PipsScan_SrcFirst(list, idx, h) ==
    IF \E i \in idx .. Len(list) : list[i] = h.saddr \/ list[i] = h.daddr
    THEN LET i == CHOOSE i \in idx .. Len(list) :
                     /\ list[i] = h.saddr \/ list[i] = h.daddr
                     /\ \A j \in idx .. (i - 1) :
                           list[j] # h.saddr /\ list[j] # h.daddr
         IN  IF h.saddr = list[i] THEN "out" ELSE "in"
    ELSE "miss"

\* lines 472-478: the scan of the pips list; "miss" when no entry hits
RECURSIVE PipsScan(_, _, _)
PipsScan(list, idx, h) ==
    IF idx > Len(list) THEN "miss"
    ELSE IF h.daddr = list[idx] THEN "in"
    ELSE IF h.saddr = list[idx] THEN "out"
    ELSE PipsScan(list, idx + 1, h)

\* lines 465-486 on the values the function reads: the endpoint's pips
\* list (empty: NULL) and application map, the ethertype and the header
\* fields; TRUE for ingress
NfqDirection(pips, apps, eth_type, h) ==
    LET hit == IF eth_type = "IP" /\ pips # <<>>
               THEN PipsScan(pips, 1, h)
               ELSE "miss"
    IN  IF hit = "in" THEN TRUE
        ELSE IF hit = "out" THEN FALSE
        ELSE IF AppLookup(apps, h.dport, h.ip_proto) THEN TRUE
        ELSE IF AppLookup(apps, h.sport, h.ip_proto) THEN FALSE
        ELSE h.dport < h.sport

\* lines 465-486: TRUE for ingress
nfq_packet_direction(p, h) ==
    NfqDirection(ep_pips[p.ep], app_map[p.ep], p.eth_type, h)

\* lines 496-501 and 507-512, a plausible slip: the test of
\* nfq_packet_direction copied (dport < sport)
LoPortRule_Less(apps, h) ==
    IF AppLookup(apps, h.dport, h.ip_proto) THEN FALSE
    ELSE IF AppLookup(apps, h.sport, h.ip_proto) THEN TRUE
    ELSE h.dport < h.sport

\* lines 496-501 and 507-512: source and destination address are equal
LoPortRule(apps, h) ==
    IF AppLookup(apps, h.dport, h.ip_proto) THEN FALSE
    ELSE IF AppLookup(apps, h.sport, h.ip_proto) THEN TRUE
    ELSE h.dport > h.sport

\* lines 489-518 on the values the function reads; TRUE when the packet is
\* ingress to the "lo" interface
ProxymeshDirection(apps, eth_type, h) ==
    IF eth_type = "IP"
    THEN IF h.saddr = h.daddr THEN LoPortRule(apps, h)
         ELSE IF h.daddr = htonl(INADDR_LOOPBACK)
                 \/ IS_IN_LOOPBACK(ntohl(h.daddr))
         THEN TRUE
         ELSE FALSE
    ELSE IF h.saddr = h.daddr THEN LoPortRule(apps, h)
         ELSE IF h.daddr = in6addr_loopback THEN TRUE
         ELSE FALSE

\* lines 489-518: TRUE when the packet is ingress to the "lo" interface
proxymesh_packet_direction(p, h) ==
    ProxymeshDirection(app_map[p.ep], p.eth_type, h)

\* lines 674-678, a plausible slip: the result is not negated
LoFlags_NotNegated(tolo) == IF tolo THEN {DPI_PKT_FLAG_INGRESS} ELSE {}

\* lines 674-678: the direction with respect to "lo" is the opposite of the
\* direction with respect to the workload
LoFlags(tolo) == IF ~tolo THEN {DPI_PKT_FLAG_INGRESS} ELSE {}

\* lines 674-683: the INGRESS flag the heuristics add
DirectionFlags(p, h) ==
    IF isproxymesh
    THEN LoFlags(proxymesh_packet_direction(p, h))
    ELSE IF nfq_packet_direction(p, h)
         THEN {DPI_PKT_FLAG_INGRESS} ELSE {}

(***************************************************************************)
(* Lines 673-700: for proxymesh and NFQ the direction comes from the       *)
(* packet's addresses and ports, and the packet is counted here.           *)
(***************************************************************************)
RecvDirection ==
    /\ pc = "dir"
    /\ UNCHANGED resetVars
    /\ UNCHANGED stats_slot
    /\ IF isproxymesh \/ ctx.nfq
       THEN \E h \in Flows(th_packet.eth_type) :
              LET fl == th_packet.flags \cup DirectionFlags(th_packet, h)
              IN  /\ hdr' = h
                  /\ th_packet' = [th_packet EXCEPT
                                     !.flags = fl,
                                     !.all_metry = MetryWing(fl)]
                  /\ ev' = ev \o <<IF isproxymesh
                                     THEN "proxymesh_packet_direction"
                                     ELSE "nfq_packet_direction">>
                              \o StatsUpdate
                  /\ cur_slot' = CatchSlots(cur_slot, th_packet.ep,
                                            stats_slot)
       ELSE UNCHANGED <<hdr, th_packet, ev, cur_slot>>
    /\ pc' = "inspect"
    /\ UNCHANGED <<ctx, frame, eth, mac, lkey, promisc, ep_tap, action, tap,
                   inspect, isproxymesh, sent, ret, retline, app_map>>


\* lines 703-721: whether the packet is inspected at all
\* InspectEnabled with IPv4 multicast destinations left to inspection
InspectEnabled_McastInspected(eth_type, h) ==
    CASE eth_type = "IP" -> ~(INADDR_BROADCAST = ntohl(h.daddr))
      [] eth_type = "IPV6" -> ~IN6_IS_ADDR_MULTICAST(h.daddr)
      [] OTHER -> FALSE

InspectEnabled(eth_type, h) ==
    CASE eth_type = "IP" ->
           ~(INADDR_BROADCAST = ntohl(h.daddr) \/ IN_MULTICAST(ntohl(h.daddr)))
      [] eth_type = "IPV6" -> ~IN6_IS_ADDR_MULTICAST(h.daddr)
      [] OTHER -> FALSE

\* dpi_inspect_ethernet (dpi/dpi_packet.c): the actions inspection may give
dpi_inspect_ethernet(p) == Actions

(***************************************************************************)
(* Lines 702-732: inspection of unicast IP packets the decoder passed      *)
(* with DPI_ACTION_NONE, then rcu_read_unlock().                           *)
(***************************************************************************)
\* lines 723-732, a plausible slip: the section is left before inspection
InspectCalls_UnlockFirst(run) ==
    IF run THEN <<"rcu_read_unlock", "dpi_inspect_ethernet">>
    ELSE <<"rcu_read_unlock">>

\* lines 723-732: the calls of the block, in order
InspectCalls(run) ==
    IF run THEN <<"dpi_inspect_ethernet", "rcu_read_unlock">>
    ELSE <<"rcu_read_unlock">>

RecvInspect ==
    /\ pc = "inspect"
    /\ UNCHANGED resetVars
    /\ UNCHANGED <<stats_slot, cur_slot>>
    /\ \E h \in (IF hdr.read THEN {hdr} ELSE DstFlows(th_packet.eth_type)) :
          LET insp == InspectEnabled(th_packet.eth_type, h)
          IN  /\ hdr' = h
              /\ inspect' = insp
              /\ IF action = DPI_ACTION_NONE /\ insp
                 THEN \E a \in dpi_inspect_ethernet(th_packet) :
                        /\ action' = a
                        /\ ev' = ev \o InspectCalls(TRUE)
                 ELSE /\ action' = action
                      /\ ev' = ev \o InspectCalls(FALSE)
    /\ pc' = "verdict"
    /\ UNCHANGED <<ctx, frame, eth, mac, lkey, promisc, ep_tap, tap, isproxymesh,
                   th_packet, sent, ret, retline,
                   app_map>>

\* lines 734-735, a plausible slip: BLOCK is not tested
Blocked_NoBlock(a) == a = DPI_ACTION_DROP \/ a = DPI_ACTION_RESET

\* lines 734-735: the actions that stop the frame
Blocked(a) ==
    a = DPI_ACTION_DROP \/ a = DPI_ACTION_RESET \/ a = DPI_ACTION_BLOCK

\* lines 736 and 749, a plausible slip: the NFQ mode is not tested
NfqVerdict_Never == FALSE

\* lines 736 and 749: the verdict is a return value, not a forward
NfqVerdict == ~tap /\ ctx.nfq

\* lines 740-744, a plausible slip: the else is missing, and a packet with
\* a fragment tracker is sent twice
ForwardCalls_NoElse(frag) ==
    IF frag THEN <<"dpi_frag_send", "send_packet">> ELSE <<"send_packet">>

\* lines 740-744: the fragment chain, or the frame
ForwardCalls(frag) ==
    IF frag THEN <<"dpi_frag_send">> ELSE <<"send_packet">>

(***************************************************************************)
(* Lines 734-755: forward (the frame, or the fragment chain), discard, or  *)
(* return the NFQ verdict.                                                 *)
(***************************************************************************)
RecvVerdict ==
    /\ pc = "verdict"
    /\ UNCHANGED resetVars
    /\ UNCHANGED <<stats_slot, cur_slot>>
    /\ IF ~tap /\ ~Blocked(action)
       THEN IF NfqVerdict
            THEN /\ Return(0, 738)
                 /\ UNCHANGED <<ev, sent>>
            ELSE /\ ev' = ev \o ForwardCalls(th_packet.frag_trac)
                 /\ sent' = IF Count(ev', "send_packet") > 0
                            THEN Append(sent, frame) ELSE sent
                 /\ Return(0, 754)
       ELSE /\ ev' = IF th_packet.frag_trac
                     THEN Append(ev, "dpi_frag_discard") ELSE ev
            /\ sent' = sent
            /\ IF NfqVerdict THEN Return(1, 751) ELSE Return(0, 754)
    /\ UNCHANGED <<ctx, frame, eth, mac, lkey, promisc, ep_tap, action, tap,
                   inspect, isproxymesh, th_packet, hdr, app_map>>

(***************************************************************************)
(* The caller (the capture loop of the IO layer) has the verdict and goes  *)
(* on to its next frame; the locals and the log of the call are dropped.   *)
(***************************************************************************)
RecvReturn ==
    /\ pc = "done"
    /\ UNCHANGED resetVars
    /\ UNCHANGED <<stats_slot, cur_slot>>
    /\ pc' = "idle"
    /\ ctx' = [tc |-> FALSE, quar |-> FALSE, nfq |-> FALSE, tap |-> FALSE,
               ep_mac |-> MacPlain]
    /\ frame' = [ptr |-> "pkt", len |-> FullLen]
    /\ eth' = NoEth
    /\ mac' = NoMac
    /\ lkey' = NoMac
    /\ action' = -1
    /\ tap' = FALSE
    /\ inspect' = TRUE
    /\ isproxymesh' = FALSE
    /\ th_packet' = ZeroPacket([ptr |-> "pkt", len |-> FullLen])
    /\ hdr' = NoHdr
    /\ ev' = <<>>
    /\ sent' = <<>>
    /\ ret' = -1
    /\ retline' = 0
    /\ UNCHANGED <<promisc, ep_tap, app_map>>

Next ==
    \/ RecvReturn
    \/ RecvEnter
    \/ RecvLookup
    \/ RecvEndpoint
    \/ RecvParse
    \/ RecvDirection
    \/ RecvInspect
    \/ RecvVerdict

Spec == Init /\ [][Next]_vars

(***************************************************************************)
(* The IO layer moves ctx->stats_slot on between two calls; the calls see  *)
(* every combination of the slot and of the cur_slot values left behind.   *)
(***************************************************************************)
SlotTick ==
    /\ pc = "idle"
    /\ stats_slot < MaxSlot
    /\ stats_slot' = stats_slot + 1
    /\ UNCHANGED <<pc, ctx, frame, eth, mac, lkey, promisc, ep_tap, action,
                   tap, inspect, isproxymesh, th_packet, hdr, ev, sent, ret,
                   retline, cur_slot, app_map, resetVars>>

NextStats ==
    \/ RecvReturn
    \/ RecvEnter
    \/ RecvLookup
    \/ RecvEndpoint
    \/ RecvParse
    \/ RecvDirection
    \/ RecvInspect
    \/ RecvVerdict
    \/ SlotTick

InitStats == Init /\ ep_tap = [e \in EPs |-> FALSE]

SpecStats == InitStats /\ [][NextStats]_vars


(***************************************************************************)
(* dpi_inject_reset_by_session (lines 347-439).                            *)
(*                                                                         *)
(* A frame field is kept as its octets on the wire; htons and htonl turn   *)
(* a host-order number into them.  A 32-bit host-order number (a TCP       *)
(* sequence number) is kept as its two 16-bit halves, high first.          *)
(***************************************************************************)
DPI_SESS_FLAG_INGRESS == "INGRESS"
DPI_SESS_FLAG_TAP == "TAP"
DPI_SESS_FLAG_PROXYMESH == "PROXYMESH"
SessFlags == {DPI_SESS_FLAG_INGRESS, DPI_SESS_FLAG_TAP,
              DPI_SESS_FLAG_PROXYMESH}

ETH_P_IP == 2048
TH_RST == 4
\* sizeof(struct ethhdr), sizeof(struct iphdr), sizeof(struct tcphdr)
SIZEOF_ETHHDR == 14
SIZEOF_IPHDR == 20
SIZEOF_TCPHDR == 20

htons(v) == <<v \div 256, v % 256>>

\* ep->ucmac of every endpoint: the unicast alias
ep_ucmac == ("E1" :> MacNeuV) @@ ("E2" :> MacProxy)

\* the wings of the sessions of the model: the workload's side with its own
\* MAC or with its alias, a peer, and a side whose workload was removed
SeqLow == <<0, 1000>>
SeqHigh == <<65535, 65534>>
Wings ==
    {[mac |-> MacPlain, ip |-> Ip4Ep, port |-> PortDns, next_seq |-> SeqLow],
     [mac |-> MacNeuV, ip |-> Ip4Ep, port |-> PortDns, next_seq |-> SeqHigh],
     [mac |-> MacPeer, ip |-> Ip4Peer, port |-> PortHigh,
      next_seq |-> SeqHigh],
     [mac |-> MacGone, ip |-> Ip4Peer, port |-> PortHigh,
      next_seq |-> SeqLow]}

Sessions == [flags : SUBSET SessFlags, client : Wings, server : Wings]

\* the values rand() may give, cut to 16 bits
RandIds == {0, 4660}

\* the 16-bit words of a sequence of octets
RECURSIVE Words(_)
Words(o) ==
    IF Len(o) = 0 THEN <<>>
    ELSE <<o[1] * 256 + o[2]>> \o Words(SubSeq(o, 3, Len(o)))

RECURSIVE SumWords(_)
SumWords(w) == IF Len(w) = 0 THEN 0 ELSE w[1] + SumWords(Tail(w))

\* the end-around carry of the one's complement sum
RECURSIVE Fold16(_)
Fold16(n) == IF n < 65536 THEN n ELSE Fold16((n % 65536) + (n \div 65536))

\* the Internet checksum of a sequence of octets, as a number
Cksum(o) == 65535 - Fold16(SumWords(Words(o)))

\* the 20 octets of the IPv4 header
IpOctets(iph) ==
    <<iph.version * 16 + iph.ihl, iph.tos>> \o iph.tot_len \o iph.id
    \o iph.frag_off \o <<iph.ttl, iph.protocol>> \o iph.check
    \o iph.saddr \o iph.daddr

\* the 20 octets of the TCP header
TcpOctets(tcph) ==
    tcph.th_sport \o tcph.th_dport \o tcph.th_seq \o tcph.th_ack
    \o <<tcph.th_off * 16 + tcph.th_x2, tcph.th_flags>> \o tcph.th_win
    \o tcph.th_sum \o tcph.th_urp

\* get_ip_cksum (utils/helper.h): the checksum of the header as it stands
get_ip_cksum(iph) == htons(Cksum(IpOctets(iph)))

\* get_l4v4_cksum (utils/helper.h): the checksum of the pseudo-header and
\* of the L4 header as it stands
get_l4v4_cksum(iph, tcph, l4len) ==
    htons(Cksum(iph.saddr \o iph.daddr \o <<0, iph.protocol>>
                \o htons(l4len) \o TcpOctets(tcph)))

\* lines 357-358, a plausible slip: the TAP test is missing
InjectSkipped_NoTap(sess) == DPI_SESS_FLAG_PROXYMESH \in sess.flags

\* lines 357-358: nothing is injected into a TAP or a PROXYMESH session
InjectSkipped(sess) ==
    \/ DPI_SESS_FLAG_TAP \in sess.flags
    \/ DPI_SESS_FLAG_PROXYMESH \in sess.flags

\* lines 363-369: the MAC record of the workload's side of the session
InjectMac(sess) ==
    IF DPI_SESS_FLAG_INGRESS \in sess.flags
    THEN EpMapLookup(sess.server.mac)
    ELSE EpMapLookup(sess.client.mac)

\* lines 374-393: the Ethernet header
ResetEth(sess, to_server, uc_mac) ==
    LET c == sess.client
    IN  IF DPI_SESS_FLAG_INGRESS \in sess.flags
        THEN IF to_server
             THEN [h_proto |-> htons(ETH_P_IP), h_source |-> c.mac,
                   h_dest |-> uc_mac]
             ELSE [h_proto |-> htons(ETH_P_IP), h_source |-> uc_mac,
                   h_dest |-> c.mac]
        ELSE IF to_server
             THEN [h_proto |-> htons(ETH_P_IP), h_source |-> uc_mac,
                   h_dest |-> c.mac]
             ELSE [h_proto |-> htons(ETH_P_IP), h_source |-> c.mac,
                   h_dest |-> uc_mac]

\* lines 406-412, a plausible slip: the addresses are not exchanged
ResetAddrs_NoSwap(sess, to_server) ==
    [saddr |-> sess.client.ip, daddr |-> sess.server.ip]

\* lines 406-412: the addresses, by to_server
ResetAddrs(sess, to_server) ==
    IF to_server
    THEN [saddr |-> sess.client.ip, daddr |-> sess.server.ip]
    ELSE [saddr |-> sess.server.ip, daddr |-> sess.client.ip]

\* lines 397-412: the fields of the IPv4 header, check = 0
ResetIpFields(sess, to_server, id) ==
    [version |-> 4, ihl |-> SIZEOF_IPHDR \div 4, tos |-> 0,
     tot_len |-> htons(SIZEOF_IPHDR + SIZEOF_TCPHDR),
     id |-> htons(id), frag_off |-> htons(16384), ttl |-> 255,
     protocol |-> IPPROTO_TCP, check |-> <<0, 0>>,
     saddr |-> ResetAddrs(sess, to_server).saddr,
     daddr |-> ResetAddrs(sess, to_server).daddr]

\* lines 396-413, a plausible slip: the checksum is taken before the
\* addresses are stored (the buffer holds zeroes there)
ResetIp_CksumFirst(sess, to_server, id) ==
    LET h == ResetIpFields(sess, to_server, id)
        h0 == [h EXCEPT !.saddr = <<0, 0, 0, 0>>, !.daddr = <<0, 0, 0, 0>>]
    IN  [h EXCEPT !.check = get_ip_cksum(h0)]

\* lines 396-413: the IPv4 header; the checksum is taken over the header
\* with check = 0 and the addresses in place
ResetIp(sess, to_server, id) ==
    LET h == ResetIpFields(sess, to_server, id)
    IN  [h EXCEPT !.check = get_ip_cksum(h)]

\* lines 422 and 428, a plausible slip: the sequence number of the other
\* wing
ResetSeq_Target(sess, to_server) ==
    IF to_server THEN htonl(sess.server.next_seq)
    ELSE htonl(sess.client.next_seq)

\* lines 422 and 428: th_seq
ResetSeq(sess, to_server) ==
    IF to_server THEN htonl(sess.client.next_seq)
    ELSE htonl(sess.server.next_seq)

\* line 432, a plausible slip: RST with ACK (0x10)
ResetFlags_RstAck == TH_RST + 16

\* line 432: th_flags
ResetFlags == TH_RST

\* lines 416-435: the TCP header; the checksum is taken last, with
\* th_sum = 0
ResetTcp(sess, to_server, iph) ==
    LET c == sess.client
        s == sess.server
        h == [th_sport |-> IF to_server THEN htons(c.port)
                           ELSE htons(s.port),
              th_dport |-> IF to_server THEN htons(s.port)
                           ELSE htons(c.port),
              th_seq |-> ResetSeq(sess, to_server),
              th_ack |-> <<0, 0, 0, 0>>,
              th_win |-> <<0, 0>>,
              th_off |-> SIZEOF_TCPHDR \div 4,
              th_x2 |-> 0,
              th_flags |-> ResetFlags,
              th_sum |-> <<0, 0>>,
              th_urp |-> <<0, 0>>]
    IN  [h EXCEPT !.th_sum = get_l4v4_cksum(iph, h, SIZEOF_TCPHDR)]

\* memset(&ctx, 0, sizeof(ctx))
ZeroCtx == [tc |-> FALSE, quar |-> FALSE, nfq |-> FALSE, tap |-> FALSE,
            ep_mac |-> <<0, 0, 0, 0, 0, 0>>]

(***************************************************************************)
(* One call of dpi_inject_reset_by_session: nothing for a TAP or           *)
(* PROXYMESH session or when the workload's MAC is no longer registered,   *)
(* else one send_packet of the 54-octet frame.                             *)
(***************************************************************************)
InjectReset ==
    /\ \E sess \in Sessions, to_server \in BOOLEAN, id \in RandIds :
          /\ inj' = [called |-> TRUE, sess |-> sess, to_server |-> to_server]
          /\ IF InjectSkipped(sess) \/ InjectMac(sess) = NoMac
             THEN rst_out' = <<>>
             ELSE LET uc_mac == ep_ucmac[g_ep_map[InjectMac(sess)]]
                      iph == ResetIp(sess, to_server, id)
                  IN  rst_out' =
                        <<[ctx |-> ZeroCtx,
                           eth |-> ResetEth(sess, to_server, uc_mac),
                           iph |-> iph,
                           tcph |-> ResetTcp(sess, to_server, iph),
                           len |-> SIZEOF_ETHHDR + SIZEOF_IPHDR
                                   + SIZEOF_TCPHDR]>>
    /\ UNCHANGED <<recvVars, dirq, appVars, runVars, polVars, extVars>>

NextReset == InjectReset

SpecReset == Init /\ [][NextReset]_vars

(***************************************************************************)
(* The direction heuristics on their own: nfq_packet_direction on any      *)
(* packet of an endpoint, and the proxymesh path of dpi_recv_packet        *)
(* (lines 589-599, then 674-678) on any frame the proxymesh rule takes.    *)
(***************************************************************************)
\* the pips lists of the model: NULL, one address, two addresses
PipsLists ==
    {<<>>} \cup {<<a>> : a \in {Ip4Ep, Ip4Peer}}
           \cup {<<a, b>> : a \in {Ip4Ep, Ip4Peer}, b \in {Ip4Ep, Ip4Peer}}

\* the application maps of the model, by their keys
AppKeys == {<<PortDns, IPPROTO_UDP>>, <<PortHigh, IPPROTO_UDP>>,
            <<PortDns, IPPROTO_TCP>>}
AppMaps ==
    {[k \in K |-> [proto |-> 0, server |-> 0, application |-> 0,
                   version |-> <<>>, src |-> APP_SRC_DP]] :
        K \in SUBSET AppKeys}

\* a loopback address other than 127.0.0.1
Ip4Loop2 == <<127, 0, 1, 1>>

DirFlows(eth_type) ==
    IF eth_type = "IP"
    THEN Flows(eth_type)
         \cup FlowSet({Ip4Peer}, {Ip4Loop2}, PortPairs, {IPPROTO_UDP})
    ELSE Flows(eth_type)

NfqDirCall ==
    /\ dirq = NoDir
    /\ \E pips \in PipsLists, apps \in AppMaps, et \in EthTypes :
       \E h \in DirFlows(et) :
          dirq' = [fn |-> "nfq", pips |-> pips, apps |-> apps,
                   eth_type |-> et, h |-> h,
                   res |-> NfqDirection(pips, apps, et, h)]
    /\ UNCHANGED <<recvVars, actuatorVars, appVars, runVars, polVars, extVars>>

ProxymeshDirCall ==
    /\ dirq = NoDir
    /\ \E c \in CtxSet, s \in SrcMacs, d \in DstMacs, apps \in AppMaps,
          et \in EthTypes :
       \E h \in DirFlows(et) :
          LET r == ResolveRule(c, [h_source |-> s, h_dest |-> d])
              tolo == ProxymeshDirection(apps, et, h)
          IN  /\ r.proxymesh
              /\ dirq' = [fn |-> "proxymesh", apps |-> apps,
                          eth_type |-> et, h |-> h, res |-> tolo,
                          flags |-> (IF r.ingress
                                     THEN {DPI_PKT_FLAG_INGRESS} ELSE {})
                                    \cup LoFlags(tolo)]
    /\ UNCHANGED <<recvVars, actuatorVars, appVars, runVars, polVars, extVars>>

\* the caller has the result
DirReturn ==
    /\ dirq # NoDir
    /\ dirq' = NoDir
    /\ UNCHANGED <<recvVars, actuatorVars, appVars, runVars, polVars, extVars>>

NextDir ==
    \/ NfqDirCall
    \/ ProxymeshDirCall
    \/ DirReturn

SpecDir == Init /\ [][NextDir]_vars

(***************************************************************************)
(* Properties of dpi_recv_packet.                                          *)
(***************************************************************************)
\* the tap mode of the endpoint the packet resolved: ep->tap, or ctx->tap
\* for the promiscuous dummy endpoint
EpInTap ==
    IF th_packet.ep = DummyEp THEN ctx.tap ELSE ep_tap[th_packet.ep]

\* the call went through decode and was not ended by it
PassedDecode ==
    /\ pc = "done"
    /\ th_packet.ep # NoEp
    /\ Count(ev, "dpi_parse_ethernet") = 1
    /\ retline # 670

\* the frame was forwarded as received: one send_packet with the caller's
\* pointer and length, or one dpi_frag_send of the attached tracker
ForwardedOnce ==
    IF th_packet.frag_trac
    THEN /\ Count(ev, "dpi_frag_send") = 1
         /\ Count(ev, "send_packet") = 0
         /\ sent = <<>>
    ELSE /\ Count(ev, "dpi_frag_send") = 0
         /\ Count(ev, "send_packet") = 1
         /\ sent = <<[ptr |-> frame.ptr, len |-> frame.len]>>

NotForwarded ==
    /\ Count(ev, "dpi_frag_send") = 0
    /\ Count(ev, "send_packet") = 0
    /\ sent = <<>>

StopActions == {DPI_ACTION_DROP, DPI_ACTION_RESET, DPI_ACTION_BLOCK}

\* C1: a packet of a non-tap endpoint, outside NFQ, that decode let pass is
\* forwarded (the frame itself, or the fragment chain) if and only if the
\* final action is not DROP, RESET or BLOCK.
C1_ForwardIffNotStopped ==
    (PassedDecode /\ ~EpInTap /\ ~ctx.nfq) =>
        IF action \in StopActions THEN NotForwarded ELSE ForwardedOnce

C1_Witness ==
    /\ PassedDecode /\ ~EpInTap /\ ~ctx.nfq
    /\ Count(ev, "dpi_inspect_ethernet") = 1
    /\ action = DPI_ACTION_BYPASS
    /\ sent = <<frame>>

\* C2: under NFQ, for a non-tap endpoint and a packet decode let pass, the
\* return value is 1 for DROP, RESET and BLOCK and 0 for every other
\* action, and the frame is never given to send_packet.
C2_NfqVerdict ==
    (PassedDecode /\ ~EpInTap /\ ctx.nfq) =>
        /\ ret = (IF action \in StopActions THEN 1 ELSE 0)
        /\ Count(ev, "send_packet") = 0
        /\ sent = <<>>

C2_Witness ==
    /\ PassedDecode /\ ~EpInTap /\ ctx.nfq
    /\ action = DPI_ACTION_BLOCK
    /\ ret = 1

\* the call was ended by a DROP or RESET of the decoder
DecodeDropped ==
    /\ pc = "done"
    /\ Count(ev, "dpi_parse_ethernet") = 1
    /\ Count(ev, "dpi_inspect_ethernet") = 0
    /\ action \in {DPI_ACTION_DROP, DPI_ACTION_RESET}

C4_OneOutcome ==
    /\ Count(ev, "send_packet") + Count(ev, "dpi_frag_send") <= 1
    /\ Count(ev, "dpi_frag_discard") <= 1
    /\ ~(Count(ev, "dpi_frag_send") > 0 /\ Count(ev, "dpi_frag_discard") > 0)
    /\ Len(sent) = Count(ev, "send_packet")
    /\ pc = "done" => ret \in {0, 1}
    /\ pc # "done" => ret = -1

C4_Witness ==
    /\ pc = "done"
    /\ th_packet.frag_trac
    /\ Count(ev, "dpi_frag_discard") = 1
    /\ ret = 1

\* C5: a packet of an endpoint in tap mode is only observed: nothing is
\* forwarded and the value returned is 0, also under NFQ.
C5_TapObserveOnly ==
    (th_packet.ep # NoEp /\ EpInTap) =>
        /\ NotForwarded
        /\ pc = "done" => ret = 0

C5_Witness ==
    /\ pc = "done"
    /\ th_packet.ep = "E1" /\ EpInTap
    /\ ctx.nfq
    /\ action = DPI_ACTION_DROP
    /\ Count(ev, "dpi_inspect_ethernet") = 1
    /\ ret = 0


\* the log up to, not including, entry i holds an rcu_read_lock that no
\* rcu_read_unlock has closed
InSection(i) ==
    /\ \E j \in 1 .. (i - 1) : ev[j] = "rcu_read_lock"
    /\ \A j \in 1 .. (i - 1) : ev[j] # "rcu_read_unlock"

\* the section was entered and left before entry i
AfterSection(i) ==
    /\ \E j \in 1 .. (i - 1) : ev[j] = "rcu_read_lock"
    /\ \E j \in 1 .. (i - 1) : ev[j] = "rcu_read_unlock"

\* the calls that look up g_ep_map or read through the resolved endpoint
EpReads == {"rcu_map_lookup", "deref_ep", "dpi_inc_stats_packet",
            "nfq_packet_direction", "proxymesh_packet_direction",
            "dpi_parse_ethernet", "dpi_inspect_ethernet"}

Forwards == {"send_packet", "dpi_frag_send"}

\* C7: the RCU read section is entered once and left once on every return
\* path; the registry lookup and every read through the endpoint are
\* inside it, and the frame is forwarded only after it.
C7_RcuSection ==
    /\ pc # "idle" => (Len(ev) > 0 /\ ev[1] = "rcu_read_lock")
    /\ Count(ev, "rcu_read_lock") <= 1
    /\ Count(ev, "rcu_read_unlock") <= 1
    /\ pc = "done" => (/\ Count(ev, "rcu_read_lock") = 1
                       /\ Count(ev, "rcu_read_unlock") = 1)
    /\ pc \in {"l2", "ep", "parse", "dir", "inspect"} =>
           Count(ev, "rcu_read_unlock") = 0
    /\ \A i \in DOMAIN ev :
          /\ ev[i] \in EpReads => InSection(i)
          /\ ev[i] \in Forwards => AfterSection(i)

C7_Witness ==
    /\ pc = "done"
    /\ retline = 754
    /\ Count(ev, "rcu_map_lookup") = 1
    /\ Count(ev, "dpi_inspect_ethernet") = 1
    /\ ev[Len(ev)] = "send_packet"
    /\ ev[Len(ev) - 1] = "rcu_read_unlock"

\* the frame of the call is a multicast or broadcast frame met in non-TC
\* mode
McastNonTc ==
    /\ pc = "done"
    /\ ~ctx.tc
    /\ eth # NoEth
    /\ eth.h_dest[1] % 2 = 1

\* C8 as claimed: in non-TC mode a broadcast or multicast frame is sent
\* raw, exactly once, and nothing else happens, whatever nfq, quar and tap
\* are.
C8_Original ==
    McastNonTc =>
        /\ ev = <<"rcu_read_lock", "rcu_read_unlock", "send_packet">>
        /\ sent = <<frame>>
        /\ ret = 0

\* C8 as amended: in non-TC mode a broadcast or multicast frame ends the
\* call at once with 0 (no lookup, stats, decode or inspection), whatever
\* quar and tap are; it is sent raw exactly once when nfq is clear, and is
\* not sent when nfq is set.  No such frame gets past the L2 block.
C8_McastBypass ==
    /\ McastNonTc =>
          /\ ev = (IF ctx.nfq
                   THEN <<"rcu_read_lock", "rcu_read_unlock">>
                   ELSE <<"rcu_read_lock", "rcu_read_unlock", "send_packet">>)
          /\ sent = (IF ctx.nfq THEN <<>> ELSE <<frame>>)
          /\ ret = 0
          /\ th_packet.ep = NoEp
    /\ (pc = "ep" /\ ~ctx.tc) => eth.h_dest[1] % 2 = 0

C8_Witness ==
    /\ McastNonTc
    /\ eth.h_dest = MacMcast
    /\ ctx.quar /\ ctx.tap /\ ~ctx.nfq
    /\ sent = <<frame>>

\* C9: when the L2 block ends with no MAC record and promiscuous mode is
\* off, the call ends there: the section is left, 0 is returned, and there
\* is no decode, inspection, stats update or send.
C9_NoEndpointAccept ==
    [][(pc = "ep" /\ mac = NoMac /\ ~promisc) =>
          /\ pc' = "done"
          /\ ret' = 0
          /\ ev' = Append(ev, "rcu_read_unlock")
          /\ Count(ev', "rcu_read_lock") = 1
          /\ Count(ev', "dpi_parse_ethernet") = 0
          /\ Count(ev', "dpi_inspect_ethernet") = 0
          /\ Count(ev', "dpi_inc_stats_packet") = 0
          /\ Count(ev', "send_packet") = 0
          /\ sent' = <<>>
          /\ th_packet'.ep = NoEp]_vars

C9_Witness ==
    /\ pc = "done"
    /\ retline = 655
    /\ ~promisc
    /\ ev = <<"rcu_read_lock", "rcu_map_lookup", "rcu_read_unlock">>
    /\ ret = 0

\* C10: in non-TC mode, for a unicast frame of a context that is not
\* quarantined, the source MAC is tested first: a source equal to
\* ctx.ep_mac is looked up and the packet is egress; else a destination
\* equal to ctx.ep_mac is looked up and the packet is INGRESS; else no
\* lookup is made and no endpoint record is found.
C10_NonTcDirection ==
    (pc = "ep" /\ ~ctx.tc) =>
        /\ ~ctx.quar
        /\ IF eth.h_source = ctx.ep_mac
           THEN /\ lkey = eth.h_source
                /\ Count(ev, "rcu_map_lookup") = 1
                /\ DPI_PKT_FLAG_INGRESS \notin th_packet.flags
           ELSE IF eth.h_dest = ctx.ep_mac
           THEN /\ lkey = eth.h_dest
                /\ Count(ev, "rcu_map_lookup") = 1
                /\ DPI_PKT_FLAG_INGRESS \in th_packet.flags
           ELSE /\ lkey = NoMac
                /\ mac = NoMac
                /\ Count(ev, "rcu_map_lookup") = 0
                /\ DPI_PKT_FLAG_INGRESS \notin th_packet.flags
        /\ lkey # NoMac =>
              mac = (IF lkey \in DOMAIN g_ep_map THEN lkey ELSE NoMac)
        /\ ~isproxymesh

C10_Witness ==
    /\ pc = "ep" /\ ~ctx.tc
    /\ eth.h_source = ctx.ep_mac
    /\ eth.h_dest = ctx.ep_mac
    /\ mac = eth.h_source
    /\ DPI_PKT_FLAG_INGRESS \notin th_packet.flags


(***************************************************************************)
(* Properties of dpi_inject_reset_by_session.                              *)
(***************************************************************************)
\* C6: no frame is emitted for a session whose flags hold TAP or
\* PROXYMESH, whatever to_server and the rest of the session are.
C6_NoResetForTapOrProxymesh ==
    (/\ inj.called
     /\ \/ DPI_SESS_FLAG_TAP \in inj.sess.flags
        \/ DPI_SESS_FLAG_PROXYMESH \in inj.sess.flags)
       => rst_out = <<>>

\* a TAP session whose workload is registered: only the flag stops the RST
C6_Witness ==
    /\ inj.called
    /\ inj.sess.flags = {DPI_SESS_FLAG_TAP, DPI_SESS_FLAG_INGRESS}
    /\ inj.sess.server.mac = MacPlain
    /\ inj.to_server
    /\ rst_out = <<>>

(***************************************************************************)
(* Properties of the TC-mode lookup rules of dpi_recv_packet.              *)
(***************************************************************************)
\* the four octets 'N' 'e' 'u' 'V' lead the address
HasNeuV(m) == <<m[1], m[2], m[3], m[4]>> = <<78, 101, 117, 86>>

\* C11: in TC mode a source MAC with the "NeuV" prefix is looked up and the
\* packet is egress; else a destination MAC with the prefix is looked up
\* and the packet is INGRESS; the source test wins when both carry it.
C11_TcPrefixDirection ==
    (pc = "ep" /\ ctx.tc) =>
        /\ HasNeuV(eth.h_source) =>
              /\ lkey = eth.h_source
              /\ Count(ev, "rcu_map_lookup") = 1
              /\ DPI_PKT_FLAG_INGRESS \notin th_packet.flags
              /\ ~isproxymesh
        /\ (~HasNeuV(eth.h_source) /\ HasNeuV(eth.h_dest)) =>
              /\ lkey = eth.h_dest
              /\ Count(ev, "rcu_map_lookup") = 1
              /\ DPI_PKT_FLAG_INGRESS \in th_packet.flags
              /\ ~isproxymesh
        /\ lkey # NoMac =>
              mac = (IF lkey \in DOMAIN g_ep_map THEN lkey ELSE NoMac)

\* both addresses carry the prefix, and they differ: the source was the key
C11_Witness ==
    /\ pc = "ep" /\ ctx.tc
    /\ eth.h_source = MacNeuV
    /\ eth.h_dest = MacGone
    /\ lkey = MacNeuV
    /\ mac = MacNeuV
    /\ DPI_PKT_FLAG_INGRESS \notin th_packet.flags

\* C12: for a tapped port (TC mode, no "NeuV" prefix on either address)
\* the destination MAC is tested against ctx.ep_mac first and makes the
\* packet INGRESS; only then the source MAC, which makes it egress; a
\* frame from ctx.ep_mac to ctx.ep_mac is ingress.
C12_TapPortDirection ==
    (pc = "ep" /\ ctx.tc /\ ~HasNeuV(eth.h_source) /\ ~HasNeuV(eth.h_dest)) =>
        /\ eth.h_dest = ctx.ep_mac =>
              /\ lkey = eth.h_dest
              /\ Count(ev, "rcu_map_lookup") = 1
              /\ DPI_PKT_FLAG_INGRESS \in th_packet.flags
              /\ ~isproxymesh
        /\ (eth.h_dest # ctx.ep_mac /\ eth.h_source = ctx.ep_mac) =>
              /\ lkey = eth.h_source
              /\ Count(ev, "rcu_map_lookup") = 1
              /\ DPI_PKT_FLAG_INGRESS \notin th_packet.flags
              /\ ~isproxymesh
        /\ lkey # NoMac =>
              mac = (IF lkey \in DOMAIN g_ep_map THEN lkey ELSE NoMac)

\* source and destination both equal ctx.ep_mac: ingress
C12_Witness ==
    /\ pc = "ep" /\ ctx.tc
    /\ eth.h_source = ctx.ep_mac
    /\ eth.h_dest = ctx.ep_mac
    /\ mac = eth.h_dest
    /\ DPI_PKT_FLAG_INGRESS \in th_packet.flags

(***************************************************************************)
(* Properties of the direction heuristics.                                 *)
(***************************************************************************)
\* the entries of a pips list that equal the packet's destination or source
PipsHits(pips, h) ==
    {i \in 1 .. Len(pips) : pips[i] = h.daddr \/ pips[i] = h.saddr}

\* the least element of a non-empty set of numbers
Least(S) == CHOOSE i \in S : \A j \in S : i <= j

\* C13: nfq_packet_direction decides by priority: for an IPv4 packet of an
\* endpoint with a pips list, the first entry of the list that equals the
\* destination (ingress) or the source (egress) address; with no such entry,
\* a record of the application map at (dport, ip_proto) gives ingress, else
\* one at (sport, ip_proto) gives egress, else ingress is dport < sport.
C13_NfqDirectionPriority ==
    dirq.fn = "nfq" =>
        LET h == dirq.h
            hits == IF dirq.eth_type = "IP" THEN PipsHits(dirq.pips, h)
                    ELSE {}
        IN  IF hits # {}
            THEN dirq.res = (dirq.pips[Least(hits)] = h.daddr)
            ELSE IF <<h.dport, h.ip_proto>> \in DOMAIN dirq.apps
            THEN dirq.res = TRUE
            ELSE IF <<h.sport, h.ip_proto>> \in DOMAIN dirq.apps
            THEN dirq.res = FALSE
            ELSE dirq.res = (h.dport < h.sport)

\* a pips hit on the source address against an application record and a
\* port order that both say ingress
C13_Witness ==
    /\ dirq.fn = "nfq"
    /\ dirq.eth_type = "IP"
    /\ dirq.pips = <<Ip4Peer, Ip4Ep>>
    /\ dirq.h.saddr = Ip4Peer /\ dirq.h.daddr = Ip4Ep
    /\ dirq.h.dport = PortDns /\ dirq.h.sport = PortHigh
    /\ <<PortDns, IPPROTO_UDP>> \in DOMAIN dirq.apps
    /\ dirq.res = FALSE

\* C14 as claimed: an NFQ packet that reaches inspection carries the
\* INGRESS flag, and is counted in the "in" wing, exactly when
\* nfq_packet_direction says ingress, whichever rule resolved the endpoint.
C14_Original ==
    (/\ pc = "verdict" /\ ctx.nfq
     /\ Count(ev, "dpi_inspect_ethernet") = 1) =>
        /\ (DPI_PKT_FLAG_INGRESS \in th_packet.flags)
              <=> nfq_packet_direction(th_packet, hdr)
        /\ th_packet.all_metry =
              (IF nfq_packet_direction(th_packet, hdr) THEN "in" ELSE "out")

Emitted == inj.called /\ rst_out # <<>>

\* the wing of the session the workload is on, and the peer's
OwnWing == IF DPI_SESS_FLAG_INGRESS \in inj.sess.flags
           THEN inj.sess.server ELSE inj.sess.client
PeerWing == IF DPI_SESS_FLAG_INGRESS \in inj.sess.flags
            THEN inj.sess.client ELSE inj.sess.server

\* C16: an emitted frame is 54 octets, given to send_packet once: Ethernet
\* with ethertype IPv4; IPv4 with version 4, ihl 5, tos 0, total length 40,
\* DF alone, TTL 255, protocol TCP; TCP with data offset 5, RST alone,
\* ack, window and urgent pointer 0.
C16_ResetFrameFormat ==
    Emitted =>
        /\ Len(rst_out) = 1
        /\ LET f == rst_out[1]
           IN  /\ f.len = 54
               /\ Len(f.eth.h_dest) + Len(f.eth.h_source)
                    + Len(f.eth.h_proto) = 14
               /\ Len(IpOctets(f.iph)) = 20
               /\ Len(TcpOctets(f.tcph)) = 20
               /\ f.eth.h_proto = <<8, 0>>
               /\ f.iph.version = 4 /\ f.iph.ihl = 5 /\ f.iph.tos = 0
               /\ f.iph.tot_len = <<0, 40>>
               /\ f.iph.frag_off = <<64, 0>>
               /\ f.iph.ttl = 255
               /\ f.iph.protocol = 6
               /\ f.tcph.th_off = 5 /\ f.tcph.th_x2 = 0
               /\ f.tcph.th_flags = 4
               /\ f.tcph.th_ack = <<0, 0, 0, 0>>
               /\ f.tcph.th_win = <<0, 0>>
               /\ f.tcph.th_urp = <<0, 0>>

C16_Witness ==
    /\ Emitted
    /\ inj.sess.flags = {DPI_SESS_FLAG_INGRESS}
    /\ inj.sess.server.mac = MacPlain
    /\ inj.sess.client.mac = MacPeer
    /\ rst_out[1].len = 54
    /\ rst_out[1].iph.id = <<18, 52>>

\* C17 as claimed: th_seq is the next_seq of the wing the RST is sent to,
\* the server's when to_server and the client's otherwise.
C17_Original ==
    Emitted =>
        rst_out[1].tcph.th_seq =
            htonl(IF inj.to_server THEN inj.sess.server.next_seq
                  ELSE inj.sess.client.next_seq)

\* C17 as amended: th_seq is the next_seq of the wing the RST is sent in
\* the name of (the one whose address and port are the frame's source):
\* the client's when to_server and the server's otherwise.
C17_SeqOfSourceWing ==
    Emitted =>
        LET f == rst_out[1]
            w == IF inj.to_server THEN inj.sess.client ELSE inj.sess.server
        IN  /\ f.tcph.th_seq = <<w.next_seq[1] \div 256, w.next_seq[1] % 256,
                                 w.next_seq[2] \div 256, w.next_seq[2] % 256>>
            /\ f.iph.saddr = w.ip
            /\ f.tcph.th_sport = <<w.port \div 256, w.port % 256>>

\* the two wings differ in next_seq, and the client's is sent to the server
C17_Witness ==
    /\ Emitted
    /\ inj.to_server
    /\ inj.sess.client.next_seq = SeqHigh
    /\ inj.sess.server.next_seq = SeqLow
    /\ rst_out[1].tcph.th_seq = <<255, 255, 255, 254>>

\* C18: with to_server the source is (client ip, client port) and the
\* destination (server ip, server port); without, they are exchanged.
C18_AddrsPortsByToServer ==
    Emitted =>
        LET f == rst_out[1]
            src == IF inj.to_server THEN inj.sess.client ELSE inj.sess.server
            dst == IF inj.to_server THEN inj.sess.server ELSE inj.sess.client
        IN  /\ f.iph.saddr = src.ip
            /\ f.iph.daddr = dst.ip
            /\ f.tcph.th_sport = <<src.port \div 256, src.port % 256>>
            /\ f.tcph.th_dport = <<dst.port \div 256, dst.port % 256>>

C18_Witness ==
    /\ Emitted
    /\ ~inj.to_server
    /\ inj.sess.client.ip = Ip4Peer /\ inj.sess.server.ip = Ip4Ep
    /\ rst_out[1].iph.saddr = Ip4Ep
    /\ rst_out[1].iph.daddr = Ip4Peer
    /\ rst_out[1].tcph.th_sport = <<0, 53>>
    /\ rst_out[1].tcph.th_dport = <<132, 208>>

\* C19 as claimed: one Ethernet address of an emitted frame is the
\* workload's unicast alias and the other is the MAC of the peer wing (the
\* client of an ingress session, the server of an egress session).
C19_Original ==
    Emitted =>
        LET f == rst_out[1]
            uc == ep_ucmac[g_ep_map[OwnWing.mac]]
        IN  \/ f.eth.h_source = uc /\ f.eth.h_dest = PeerWing.mac
            \/ f.eth.h_source = PeerWing.mac /\ f.eth.h_dest = uc

\* C20: the IPv4 header checksum and the TCP checksum of an emitted frame
\* validate: the one's complement sum of the header's 16-bit words, and of
\* the pseudo-header's and the TCP header's, is 0xffff.
C20_ChecksumsValidate ==
    Emitted =>
        LET f == rst_out[1]
        IN  /\ Fold16(SumWords(Words(IpOctets(f.iph)))) = 65535
            /\ Fold16(SumWords(Words(
                   f.iph.saddr \o f.iph.daddr \o <<0, f.iph.protocol>>
                   \o <<0, 20>> \o TcpOctets(f.tcph)))) = 65535
            /\ f.iph.check # <<0, 0>> \/ f.tcph.th_sum # <<0, 0>>

C20_Witness ==
    /\ Emitted
    /\ inj.to_server
    /\ inj.sess.flags = {}
    /\ inj.sess.client.mac = MacNeuV
    /\ inj.sess.server.mac = MacPeer
    /\ rst_out[1].iph.id = <<0, 0>>
    /\ rst_out[1].iph.check # <<0, 0>>
    /\ rst_out[1].tcph.th_sum # <<0, 0>>

(***************************************************************************)
(* The application map of an endpoint: ep_app_map_locate and the dpi_ep_*  *)
(* functions the parsers call on the packet's session.  Each call is one   *)
(* action; appq keeps the call and the endpoint's fields before it, and    *)
(* AppReturn ends the call.                                                *)
(***************************************************************************)
SERVER_VER_SIZE == 32

\* the values given for proto, server and application
AppVals == 0 .. 2

\* the (ver, len) arguments of dpi_ep_set_server_ver: a short string and a
\* string longer than the version field
VerArgs ==
    LET VerShort == <<"1", ".", "0">>
        VerLong == [i \in 1 .. (SERVER_VER_SIZE + 8) |-> "9"]
    IN  {<<VerShort, Len(VerShort)>>, <<VerLong, Len(VerLong)>>}

\* p->ep and p->session of the calls: the endpoint, the INGRESS flag, the
\* server port and the IP protocol
AppSessions ==
    [ep : {"E1"}, ingress : BOOLEAN, port : {PortDns, PortHigh},
     ip_proto : {IPPROTO_UDP}]

\* FLAGS_TEST(s->flags, DPI_SESS_FLAG_INGRESS) at the head of each function
SessIngress_Always(s) == TRUE

SessIngress(s) == s.ingress

\* ep_app_map_locate that also marks the endpoint as updated
ep_app_map_locate_Dirty(e, port, ip_proto, alloc_ok) ==
    IF AppLookup(e.apps, port, ip_proto) \/ ~alloc_ok
    THEN e
    ELSE [e EXCEPT
            !.app_ports = (e.app_ports + 1) % 65536,
            !.app_updated = 1,
            !.apps = (<<port, ip_proto>> :>
                        [proto |-> 0, server |-> 0, application |-> 0,
                         version |-> <<>>, src |-> APP_SRC_DP]) @@ e.apps]

\* the fields of *ep the functions read and write
EpOf(ep) ==
    [apps |-> app_map[ep], app_ports |-> app_ports[ep],
     app_updated |-> app_updated[ep]]

\* the outcomes of calloc in ep_app_map_locate: it is called only when the
\* lookup finds no record
Calloc(s) ==
    IF SessIngress(s) /\ ~AppLookup(app_map[s.ep], s.port, s.ip_proto)
    THEN BOOLEAN ELSE {TRUE}

\* ep_app_map_locate marking the new record as configured by the controller
ep_app_map_locate_Ctrl(e, port, ip_proto, alloc_ok) ==
    IF AppLookup(e.apps, port, ip_proto) \/ ~alloc_ok
    THEN e
    ELSE [e EXCEPT
            !.app_ports = (e.app_ports + 1) % 65536,
            !.apps = (<<port, ip_proto>> :>
                        [proto |-> 0, server |-> 0, application |-> 0,
                         version |-> <<>>, src |-> APP_SRC_CTRL]) @@ e.apps]

\* ep_app_map_locate(ep, port, ip_proto): the endpoint after the call; the
\* function returns NULL exactly when the key is still absent
ep_app_map_locate(e, port, ip_proto, alloc_ok) ==
    IF AppLookup(e.apps, port, ip_proto) \/ ~alloc_ok
    THEN e
    ELSE [e EXCEPT
            !.app_ports = (e.app_ports + 1) % 65536,
            !.apps = (<<port, ip_proto>> :>
                        [proto |-> 0, server |-> 0, application |-> 0,
                         version |-> <<>>, src |-> APP_SRC_DP]) @@ e.apps]

\* AppSet without the test of v against zero
AppSet_AllowZero(e, key, field, v) ==
    IF e.apps[key][field] # v
    THEN [e EXCEPT !.apps[key][field] = v, !.app_updated = 1]
    ELSE e

\* AppSet without the comparison with the stored value
AppSet_NoCompare(e, key, field, v) ==
    IF v # 0
    THEN [e EXCEPT !.apps[key][field] = v, !.app_updated = 1]
    ELSE e

\* if (v != 0 && app->field != v) { app->field = v;
\*                                   uatomic_set(&p->ep->app_updated, 1); }
AppSet(e, key, field, v) ==
    IF v # 0 /\ e.apps[key][field] # v
    THEN [e EXCEPT !.apps[key][field] = v, !.app_updated = 1]
    ELSE e

\* the writes of a call: the endpoint's fields, and the call in appq
AppStore(call, e) ==
    /\ app_map' = [app_map EXCEPT ![call.s.ep] = e.apps]
    /\ app_ports' = [app_ports EXCEPT ![call.s.ep] = e.app_ports]
    /\ app_updated' = [app_updated EXCEPT ![call.s.ep] = e.app_updated]
    /\ appq' = [call EXCEPT !.old = EpOf(call.s.ep)]
    /\ UNCHANGED <<pktVars, inj, rst_out, dirq, runVars, polVars, extVars>>

dpi_ep_set_proto ==
    /\ appq = NoApp
    /\ \E s \in AppSessions, proto \in AppVals :
       \E alloc_ok \in Calloc(s) :
          LET key == <<s.port, s.ip_proto>>
              e1 == IF SessIngress(s)
                    THEN ep_app_map_locate(EpOf(s.ep), s.port, s.ip_proto,
                                           alloc_ok)
                    ELSE EpOf(s.ep)
              e2 == IF SessIngress(s) /\ AppLookup(e1.apps, s.port, s.ip_proto)
                    THEN AppSet(e1, key, "proto", proto)
                    ELSE e1
          IN  AppStore([fn |-> "dpi_ep_set_proto", s |-> s,
                        args |-> <<proto>>, res |-> 0, old |-> 0], e2)

dpi_ep_get_app ==
    /\ appq = NoApp
    /\ \E s \in AppSessions :
       \E alloc_ok \in Calloc(s) :
          LET key == <<s.port, s.ip_proto>>
              e1 == IF SessIngress(s)
                    THEN ep_app_map_locate(EpOf(s.ep), s.port, s.ip_proto,
                                           alloc_ok)
                    ELSE EpOf(s.ep)
              res == IF SessIngress(s) /\ AppLookup(e1.apps, s.port, s.ip_proto)
                     THEN e1.apps[key].application
                     ELSE 0
          IN  AppStore([fn |-> "dpi_ep_get_app", s |-> s, args |-> <<>>,
                        res |-> res, old |-> 0], e1)

dpi_ep_set_app ==
    /\ appq = NoApp
    /\ \E s \in AppSessions, server \in AppVals, application \in AppVals :
       \E alloc_ok \in Calloc(s) :
          LET key == <<s.port, s.ip_proto>>
              e1 == IF SessIngress(s)
                    THEN ep_app_map_locate(EpOf(s.ep), s.port, s.ip_proto,
                                           alloc_ok)
                    ELSE EpOf(s.ep)
              e2 == IF SessIngress(s) /\ AppLookup(e1.apps, s.port, s.ip_proto)
                    THEN AppSet(AppSet(e1, key, "server", server),
                                key, "application", application)
                    ELSE e1
          IN  AppStore([fn |-> "dpi_ep_set_app", s |-> s,
                        args |-> <<server, application>>, res |-> 0,
                        old |-> 0], e2)

dpi_ep_set_server_ver ==
    /\ appq = NoApp
    /\ \E s \in AppSessions, a \in VerArgs :
       \E alloc_ok \in Calloc(s) :
          LET key == <<s.port, s.ip_proto>>
              ver == a[1]
              len == a[2]
              size == IF len + 1 < SERVER_VER_SIZE
                      THEN len + 1 ELSE SERVER_VER_SIZE
              copied == IF Len(ver) < size - 1 THEN Len(ver) ELSE size - 1
              e1 == IF SessIngress(s)
                    THEN ep_app_map_locate(EpOf(s.ep), s.port, s.ip_proto,
                                           alloc_ok)
                    ELSE EpOf(s.ep)
              e2 == IF SessIngress(s) /\ AppLookup(e1.apps, s.port, s.ip_proto)
                    THEN [e1 EXCEPT !.apps[key].version =
                                        SubSeq(ver, 1, copied)]
                    ELSE e1
          IN  AppStore([fn |-> "dpi_ep_set_server_ver", s |-> s,
                        args |-> a, res |-> 0, old |-> 0], e2)

\* the call returns to the parser
AppReturn ==
    /\ appq # NoApp
    /\ appq' = NoApp
    /\ UNCHANGED <<recvVars, actuatorVars, dirq, app_ports, app_updated,
                   runVars, polVars, extVars>>

NextApp ==
    \/ dpi_ep_set_proto
    \/ dpi_ep_get_app
    \/ dpi_ep_set_app
    \/ dpi_ep_set_server_ver
    \/ AppReturn

\* the endpoints as the control plane installed them, no packet in flight
InitIdle == Init /\ ~promisc /\ ep_tap = [e \in EPs |-> FALSE]

SpecApp == InitIdle /\ [][NextApp]_vars

(***************************************************************************)
(* Claims on the application map.                                          *)
(***************************************************************************)
\* the record fields written from the arguments of a call, in their order
ArgFields(fn) ==
    IF fn = "dpi_ep_set_proto" THEN <<"proto">>
    ELSE IF fn = "dpi_ep_set_app" THEN <<"server", "application">>
    ELSE <<>>

\* the key of the call in appq
AppqKey == <<appq.s.port, appq.s.ip_proto>>

\* the call in appq is a dpi_ep_set_app or dpi_ep_set_proto on an ingress
\* session whose record exists and whose arguments are each zero or the
\* value stored
UnchangedUpsert ==
    /\ appq.fn \in {"dpi_ep_set_app", "dpi_ep_set_proto"}
    /\ appq.s.ingress
    /\ AppqKey \in DOMAIN appq.old.apps
    /\ \A i \in 1 .. Len(appq.args) :
          \/ appq.args[i] = 0
          \/ appq.args[i] = appq.old.apps[AppqKey][ArgFields(appq.fn)[i]]

\* C21: a dpi_ep_set_app or dpi_ep_set_proto call on an ingress session
\* whose arguments are each zero or equal to the value stored in the record
\* of (server port, ip_proto) leaves every field of the record, and the
\* endpoint's app_updated flag, as they were.
C21_UnchangedUpsertNoDirty ==
    UnchangedUpsert =>
        /\ app_map[appq.s.ep][AppqKey] = appq.old.apps[AppqKey]
        /\ app_updated[appq.s.ep] = appq.old.app_updated

\* a dpi_ep_set_app call repeated the non-zero server stored in the record
\* while the flag was 0
C21_Witness ==
    /\ UnchangedUpsert
    /\ appq.fn = "dpi_ep_set_app"
    /\ appq.args[1] # 0
    /\ appq.old.app_updated = 0
    /\ app_updated[appq.s.ep] = 0

\* the call in appq changed the endpoint's record set: a record was created,
\* or the server, application, proto or version of a record changed
RecordSetChanged ==
    /\ appq # NoApp
    /\ \/ DOMAIN app_map[appq.s.ep] # DOMAIN appq.old.apps
       \/ \E k \in DOMAIN appq.old.apps :
             \E f \in {"server", "application", "proto", "version"} :
                app_map[appq.s.ep][k][f] # appq.old.apps[k][f]

\* C22: whenever a data-path upsert creates a record or changes the
\* server, application, proto or version of a record, the endpoint's
\* app_updated flag is 1 after the call.
C22_Original == RecordSetChanged => app_updated[appq.s.ep] = 1

\* C23: under any sequence of calls a record stays in the map, its server,
\* application and proto change only to a different non-zero value (so a
\* non-zero field never returns to zero), and the data path never clears
\* the endpoint's app_updated flag.
C23_MonotonicRecords ==
    [][\A ep \in DOMAIN app_map :
          /\ app_updated[ep] = 1 => app_updated'[ep] = 1
          /\ \A k \in DOMAIN app_map[ep] :
                /\ k \in DOMAIN app_map'[ep]
                /\ \A f \in {"server", "application", "proto"} :
                      app_map'[ep][k][f] # app_map[ep][k][f]
                          => app_map'[ep][k][f] # 0]_vars

\* a dpi_ep_set_app call replaced a stored non-zero server by another one
C23_Witness ==
    /\ appq.fn = "dpi_ep_set_app"
    /\ AppqKey \in DOMAIN appq.old.apps
    /\ appq.old.apps[AppqKey].server # 0
    /\ app_map[appq.s.ep][AppqKey].server # appq.old.apps[AppqKey].server
    /\ app_updated[appq.s.ep] = 1

Digits == <<"0", "1", "2", "3", "4", "5", "6", "7", "8", "9">>

RECURSIVE AtoiDigits(_, _, _)
AtoiDigits(str, i, acc) ==
    IF i > Len(str) \/ ~(\E d \in 1 .. 10 : Digits[d] = str[i])
    THEN acc
    ELSE AtoiDigits(str, i + 1,
                    acc * 10 + (CHOOSE d \in 0 .. 9 : Digits[d + 1] = str[i]))

atoi(str) ==
    IF str # <<>> /\ str[1] = "-" THEN 0 - AtoiDigits(str, 2, 0)
    ELSE IF str # <<>> /\ str[1] = "+" THEN AtoiDigits(str, 2, 0)
    ELSE AtoiDigits(str, 1, 0)

\* the arguments given with -n: a negative number, zero, text, numbers
\* within and above MAX_DP_THREADS, a number followed by text
NArgs ==
    {<<"-", "1">>, <<"0">>, <<"x">>, <<"1">>, <<"2", "x">>,
     <<Digits[MAX_DP_THREADS + 1]>>, <<Digits[MAX_DP_THREADS + 2]>>}

\* the values of count_cpu()
CpuCounts == {1, MAX_DP_THREADS, MAX_DP_THREADS + 1}

\* the signals net_run handles, in the order it installs the handlers
SignalOrder == <<"SIGTERM", "SIGINT", "SIGQUIT", "SIGUSR1">>
ExitSignals == {"SIGTERM", "SIGINT", "SIGQUIT"}

\* dp_signal_exit(num): the value it stores in g_running
dp_signal_exit(num) == FALSE

\* the statement after dp_ctrl_loop and after each join
NextJoin_DataFirst(at) ==
    IF at = "ctrl_loop" THEN "join_data"
    ELSE IF at = "join_data" THEN "join_timer"
    ELSE "return"

NextJoin(at) ==
    IF at = "ctrl_loop" THEN "join_timer"
    ELSE IF at = "join_timer" THEN "join_data"
    ELSE "return"

\* if (thr_create[i]) of the join loop
JoinNeeded_Never(i) == FALSE

JoinNeeded(i) == thr_create[i]

notRunVars == <<recvVars, actuatorVars, dirq, appVars, polVars, extVars>>

\* main up to the callbacks: getopt, the allocation of g_shm, g_callback
MainStart ==
    /\ rpc = "main"
    /\ \E a \in NArgs \cup {NoArg}, shm_ok \in BOOLEAN :
          /\ run_arg' = a
          /\ g_dp_threads' = IF a = NoArg THEN 0 ELSE atoi(a)
          /\ IF shm_ok
             THEN /\ g_callback' =
                        [g_callback EXCEPT
                            !["debug"] = "debug_stdout",
                            !["send_packet"] = "dp_send_packet",
                            !["send_ctrl_json"] = "dp_ctrl_send_json",
                            !["send_ctrl_binary"] = "dp_ctrl_send_binary"]
                  /\ rpc' = "dpi_setup"
                  /\ run_ret' = run_ret
             ELSE /\ g_callback' = g_callback
                  /\ rpc' = "exit"
                  /\ run_ret' = <<0 - 1>>
    /\ UNCHANGED <<ncpu, g_running, handlers, g_io_callback, thr, thr_create,
                   joined, run_i, notRunVars>>

\* dpi_setup(&g_callback, &g_config), then the call of net_run
DpiSetup ==
    /\ rpc = "dpi_setup"
    /\ g_io_callback' = "g_callback"
    /\ rpc' = "net_run"
    /\ UNCHANGED <<run_arg, ncpu, g_dp_threads, g_running, handlers,
                   g_callback, thr, thr_create, joined, run_i, run_ret,
                   notRunVars>>

SetRunning ==
    /\ rpc = "net_run"
    /\ g_running' = TRUE
    /\ rpc' = "signal"
    /\ UNCHANGED <<run_arg, ncpu, g_dp_threads, handlers, g_callback,
                   g_io_callback, thr, thr_create, joined, run_i, run_ret,
                   notRunVars>>

\* one call of signal()
InstallHandler ==
    /\ rpc = "signal"
    /\ handlers' = handlers \cup {SignalOrder[Cardinality(handlers) + 1]}
    /\ rpc' = IF Cardinality(handlers) + 1 = Len(SignalOrder)
              THEN "threads" ELSE "signal"
    /\ UNCHANGED <<run_arg, ncpu, g_dp_threads, g_running, g_callback,
                   g_io_callback, thr, thr_create, joined, run_i, run_ret,
                   notRunVars>>

\* thr_create[] cleared, the number of data threads
CalcThreads ==
    /\ rpc = "threads"
    /\ \E cpu \in IF g_dp_threads = 0 THEN CpuCounts ELSE {0} :
          LET n == IF g_dp_threads = 0 THEN cpu ELSE g_dp_threads
          IN  /\ ncpu' = cpu
              /\ g_dp_threads' = IF n > MAX_DP_THREADS
                                 THEN MAX_DP_THREADS ELSE n
    /\ thr_create' = [i \in 0 .. (MAX_DP_THREADS - 1) |-> FALSE]
    /\ rpc' = "create_timer"
    /\ UNCHANGED <<run_arg, g_running, handlers, g_callback, g_io_callback,
                   thr, joined, run_i, run_ret, notRunVars>>

CreateTimer ==
    /\ rpc = "create_timer"
    /\ thr' = [thr EXCEPT ![TimerThr] = "running"]
    /\ run_i' = 0
    /\ rpc' = "create_data"
    /\ UNCHANGED <<run_arg, ncpu, g_dp_threads, g_running, handlers,
                   g_callback, g_io_callback, thr_create, joined, run_ret,
                   notRunVars>>

\* one turn of the loop that creates the data threads
CreateData ==
    /\ rpc = "create_data"
    /\ IF run_i < g_dp_threads
       THEN /\ thr_create' = [thr_create EXCEPT ![run_i] = TRUE]
            /\ thr' = [thr EXCEPT ![run_i] = "running"]
            /\ run_i' = run_i + 1
            /\ rpc' = rpc
       ELSE /\ rpc' = "ctrl_loop"
            /\ UNCHANGED <<thr_create, thr, run_i>>
    /\ UNCHANGED <<run_arg, ncpu, g_dp_threads, g_running, handlers,
                   g_callback, g_io_callback, joined, run_ret, notRunVars>>

\* dp_ctrl_loop() returns once it reads g_running false
CtrlLoop ==
    /\ rpc = "ctrl_loop"
    /\ ~g_running
    /\ rpc' = NextJoin("ctrl_loop")
    /\ run_i' = 0
    /\ UNCHANGED <<run_arg, ncpu, g_dp_threads, g_running, handlers,
                   g_callback, g_io_callback, thr, thr_create, joined,
                   run_ret, notRunVars>>

\* pthread_join(timer_thr, NULL) returns once the timer thread has exited
JoinTimer ==
    /\ rpc = "join_timer"
    /\ thr[TimerThr] = "exited"
    /\ joined' = Append(joined, TimerThr)
    /\ rpc' = NextJoin("join_timer")
    /\ run_i' = 0
    /\ UNCHANGED <<run_arg, ncpu, g_dp_threads, g_running, handlers,
                   g_callback, g_io_callback, thr, thr_create, run_ret,
                   notRunVars>>

\* one turn of the loop that joins the data threads
JoinData ==
    /\ rpc = "join_data"
    /\ IF run_i < g_dp_threads
       THEN /\ JoinNeeded(run_i) => thr[run_i] = "exited"
            /\ joined' = IF JoinNeeded(run_i)
                         THEN Append(joined, run_i) ELSE joined
            /\ run_i' = run_i + 1
            /\ rpc' = rpc
       ELSE /\ rpc' = NextJoin("join_data")
            /\ UNCHANGED <<joined, run_i>>
    /\ UNCHANGED <<run_arg, ncpu, g_dp_threads, g_running, handlers,
                   g_callback, g_io_callback, thr, thr_create, run_ret,
                   notRunVars>>

\* return 0 of net_run, return ret of main
NetRunReturn ==
    /\ rpc = "return"
    /\ run_ret' = <<0>>
    /\ rpc' = "exit"
    /\ UNCHANGED <<run_arg, ncpu, g_dp_threads, g_running, handlers,
                   g_callback, g_io_callback, thr, thr_create, joined, run_i,
                   notRunVars>>

MainStep ==
    \/ MainStart
    \/ DpiSetup
    \/ SetRunning
    \/ InstallHandler
    \/ CalcThreads
    \/ CreateTimer
    \/ CreateData
    \/ CtrlLoop
    \/ JoinTimer
    \/ JoinData
    \/ NetRunReturn

\* the timer thread or a data thread reads g_running false and returns
ThreadExit(t) ==
    /\ rpc \notin {"exit", "killed"}
    /\ thr[t] = "running"
    /\ ~g_running
    /\ thr' = [thr EXCEPT ![t] = "exited"]
    /\ UNCHANGED <<rpc, run_arg, ncpu, g_dp_threads, g_running, handlers,
                   g_callback, g_io_callback, thr_create, joined, run_i,
                   run_ret, notRunVars>>

\* SIGTERM, SIGINT or SIGQUIT is delivered to the process: the handler
\* runs if net_run has installed it, else the signal ends the process
Signal ==
    /\ rpc \notin {"exit", "killed"}
    /\ \E sig \in ExitSignals :
          IF sig \in handlers
          THEN /\ g_running' = dp_signal_exit(sig)
               /\ rpc' = rpc
          ELSE /\ rpc' = "killed"
               /\ g_running' = g_running
    /\ UNCHANGED <<run_arg, ncpu, g_dp_threads, handlers, g_callback,
                   g_io_callback, thr, thr_create, joined, run_i, run_ret,
                   notRunVars>>

NextRun ==
    \/ MainStep
    \/ \E t \in ThreadIds : ThreadExit(t)
    \/ Signal

SpecRun == InitIdle /\ [][NextRun]_vars

\* the scheduler runs the main thread and every thread that can take a step
SpecRunFair ==
    /\ SpecRun
    /\ WF_vars(MainStep)
    /\ \A t \in ThreadIds : WF_vars(ThreadExit(t))

(***************************************************************************)
(* Claims on main and net_run.                                             *)
(***************************************************************************)
\* C25 as stated: the timer thread is joined last, after every data thread
\* net_run created.
C25_Original ==
    Count(joined, TimerThr) = 1 =>
        \A i \in 0 .. (MAX_DP_THREADS - 1) :
            thr_create[i] => Count(joined, i) = 1

\* C25: the timer thread is joined first: net_run joins the timer thread
\* before it joins any data thread.
C25_TimerJoinedFirst ==
    joined # <<>> =>
        /\ joined[1] = TimerThr
        /\ \A k \in 2 .. Len(joined) : joined[k] # TimerThr

\* the timer thread and then a data thread have been joined
C25_Witness ==
    /\ Len(joined) >= 2
    /\ joined[1] = TimerThr
    /\ joined[2] = 0

\* every exit signal has its handler and g_running is false
Handled == ExitSignals \subseteq handlers /\ ~g_running

\* C26: once the handlers are installed, a delivered SIGTERM, SIGINT or
\* SIGQUIT makes g_running false and no step makes it true again; then
\* net_run eventually has joined the timer thread and every data thread it
\* created, each exactly once, and 0 is returned.
C26_ShutdownCompletes ==
    /\ [][(ExitSignals \subseteq handlers /\ Signal) => ~g_running']_vars
    /\ [][Handled => ~g_running']_vars
    /\ Handled ~>
          (/\ rpc = "exit"
           /\ run_ret = <<0>>
           /\ \A t \in ThreadIds :
                 Count(joined, t) = IF thr[t] = "none" THEN 0 ELSE 1)

\* net_run returned 0 after joining the timer thread and MAX_DP_THREADS
\* data threads
C26_Witness ==
    /\ rpc = "exit"
    /\ run_ret = <<0>>
    /\ ~g_running
    /\ Len(joined) = MAX_DP_THREADS + 1
    /\ \A t \in ThreadIds : thr[t] = "exited" /\ Count(joined, t) = 1

\* C29: for every argument of -n and every CPU count, once net_run has
\* created its threads there is one timer thread and between 1 and
\* MAX_DP_THREADS data threads: N when 1 <= N <= MAX_DP_THREADS,
\* MAX_DP_THREADS when N is larger, the CPU count capped at MAX_DP_THREADS
\* when N is 0 or -n is not given.
C29_Original ==
    rpc \in {"ctrl_loop", "join_timer", "join_data", "return"} =>
        LET N == IF run_arg = NoArg THEN 0 ELSE atoi(run_arg)
            created ==
                Cardinality({i \in 0 .. (MAX_DP_THREADS - 1) :
                                thr[i] # "none"})
        IN  /\ thr[TimerThr] # "none"
            /\ created >= 1
            /\ created <= MAX_DP_THREADS
            /\ (N >= 1 /\ N <= MAX_DP_THREADS) => created = N
            /\ N > MAX_DP_THREADS => created = MAX_DP_THREADS
            /\ N = 0 => created = IF ncpu > MAX_DP_THREADS
                                  THEN MAX_DP_THREADS ELSE ncpu

\* C30: once dpi_setup has been called, and so before any thread is
\* started, send_packet, send_ctrl_json, send_ctrl_binary, threat_log,
\* traffic_log and connect_report of g_callback are all non-NULL.
C30_Original ==
    (g_io_callback # NULL \/ \E t \in ThreadIds : thr[t] # "none") =>
        \A f \in Callbacks : g_callback[f] # NULL

(***************************************************************************)
(* The policy configuration of a packet: dpi_recv_packet copies the six    *)
(* g_* values into the thread's th_* variables after rcu_read_lock, the    *)
(* decisions of the packet read th_*, and the control plane replaces a     *)
(* g_* value at any time.                                                  *)
(***************************************************************************)
\* the assignments of dpi_recv_packet, in their order
SnapOrder ==
    <<"internal_subnet4", "policy_addr", "specialip_subnet4",
      "xff_enabled", "disable_net_policy", "detect_unmanaged_wl">>

\* the value a decision reads for a configuration name, e.g.
\* dpi_is_ip4_internal reading th_internal_subnet4
PolicyRead_Global(n) == g_policy[n]

PolicyRead(n) == th_policy[n]

notPolVars == <<recvVars, actuatorVars, dirq, appVars, runVars, extVars>>

\* the control plane installs another value of one g_* variable
PolicySwap ==
    /\ \E n \in PolicyNames :
          g_policy' = [g_policy EXCEPT ![n] = 1 - @]
    /\ UNCHANGED <<th_policy, polq, notPolVars>>

\* dpi_recv_packet up to rcu_read_lock()
PolEnter ==
    /\ polq.pc = "idle"
    /\ polq' = [pc |-> "snap", in_rcu |-> TRUE, copied |-> {},
                snap |-> <<>>, read |-> <<>>]
    /\ UNCHANGED <<g_policy, th_policy, notPolVars>>

\* the next of the six assignments th_x = g_x
PolSnapshot ==
    /\ polq.pc = "snap"
    /\ LET n == SnapOrder[Cardinality(polq.copied) + 1]
       IN  /\ th_policy' = [th_policy EXCEPT ![n] = g_policy[n]]
           /\ polq' = [polq EXCEPT
                          !.copied = @ \cup {n},
                          !.snap = (n :> g_policy[n]) @@ @,
                          !.pc = IF Cardinality(polq.copied) + 1
                                        = Len(SnapOrder)
                                 THEN "use" ELSE "snap"]
    /\ UNCHANGED <<g_policy, notPolVars>>

\* a decision taken for the packet reads one of the values
PolDecision ==
    /\ polq.pc = "use"
    /\ \E n \in PolicyNames :
          polq' = [polq EXCEPT !.read = <<n, PolicyRead(n)>>]
    /\ UNCHANGED <<g_policy, th_policy, notPolVars>>

\* rcu_read_unlock(), the packet is done
PolLeave ==
    /\ polq.pc = "use"
    /\ polq' = NoPol
    /\ UNCHANGED <<g_policy, th_policy, notPolVars>>

NextPolicy ==
    \/ PolicySwap
    \/ PolEnter
    \/ PolSnapshot
    \/ PolDecision
    \/ PolLeave

SpecPolicy == InitIdle /\ [][NextPolicy]_vars

\* C27: while a packet is processed the worker is inside the RCU read
\* section; every value copied for the packet stays in its th_* variable
\* whatever the control plane installs meanwhile; and a decision reads a
\* value only after it was copied, and reads the copy.
C27_SnapshotStable ==
    polq.pc # "idle" =>
        /\ polq.in_rcu
        /\ \A n \in polq.copied : th_policy[n] = polq.snap[n]
        /\ polq.read # <<>> =>
              /\ polq.copied = PolicyNames
              /\ polq.read[2] = polq.snap[polq.read[1]]

\* a decision read the copy of a value the control plane has replaced since
C27_Witness ==
    /\ polq.pc = "use"
    /\ polq.read # <<>>
    /\ g_policy[polq.read[1]] # polq.read[2]

(***************************************************************************)
(* Claims on the inspection step of dpi_recv_packet.                       *)
(***************************************************************************)
\* C28: at the inspection step, a packet whose ethertype is neither IPv4
\* nor IPv6, whose IPv4 destination is the limited broadcast or a multicast
\* address, whose IPv6 destination is multicast, or whose action after
\* decode is not NONE, is not given to dpi_inspect_ethernet and keeps the
\* action it had.
C28_InspectionSkipped ==
    [][pc = "inspect" =>
          LET et == th_packet.eth_type
              skipped ==
                  \/ action # DPI_ACTION_NONE
                  \/ et \notin {"IP", "IPV6"}
                  \/ /\ et = "IP"
                     /\ \/ ntohl(hdr'.daddr) = INADDR_BROADCAST
                        \/ IN_MULTICAST(ntohl(hdr'.daddr))
                  \/ et = "IPV6" /\ IN6_IS_ADDR_MULTICAST(hdr'.daddr)
          IN  skipped => /\ action' = action
                         /\ Count(ev', "dpi_inspect_ethernet") = 0]_vars

\* an IPv4 packet to a multicast address passed decode with action NONE and
\* reached the verdict without inspection
C28_Witness ==
    /\ pc = "verdict"
    /\ th_packet.eth_type = "IP"
    /\ IN_MULTICAST(ntohl(hdr.daddr))
    /\ action = DPI_ACTION_NONE
    /\ Count(ev, "dpi_inspect_ethernet") = 0
    /\ ~inspect

(***************************************************************************)
(* Claims on the application-map callbacks, by session and by function.    *)
(***************************************************************************)
\* C33: on a session without the INGRESS flag dpi_ep_set_proto,
\* dpi_ep_set_app and dpi_ep_set_server_ver leave the endpoint's application
\* map, app_ports and app_updated as they were, and dpi_ep_get_app returns 0
\* and leaves them as they were too.
C33_NonIngressNoEffect ==
    (appq # NoApp /\ ~appq.s.ingress) =>
        /\ EpOf(appq.s.ep) = appq.old
        /\ appq.res = 0

\* a dpi_ep_set_app call with non-zero arguments on a session that is not
\* ingress, for a port without a record
C33_Witness ==
    /\ appq.fn = "dpi_ep_set_app"
    /\ ~appq.s.ingress
    /\ appq.args = <<2, 2>>
    /\ AppqKey \notin DOMAIN app_map[appq.s.ep]

\* C39: dpi_ep_get_app leaves app_updated and every existing record as they
\* were; it changes the endpoint only on an ingress session whose
\* (server port, ip_proto) had no record, by inserting one empty record
\* with source DP and adding one to app_ports, and it then returns 0.
C39_GetAppFrame ==
    appq.fn = "dpi_ep_get_app" =>
        LET e == EpOf(appq.s.ep)
            blank == [proto |-> 0, server |-> 0, application |-> 0,
                      version |-> <<>>, src |-> APP_SRC_DP]
        IN  /\ e.app_updated = appq.old.app_updated
            /\ \A k \in DOMAIN appq.old.apps :
                  k \in DOMAIN e.apps /\ e.apps[k] = appq.old.apps[k]
            /\ \/ e = appq.old
               \/ /\ appq.s.ingress
                  /\ AppqKey \notin DOMAIN appq.old.apps
                  /\ DOMAIN e.apps = DOMAIN appq.old.apps \cup {AppqKey}
                  /\ e.apps[AppqKey] = blank
                  /\ e.app_ports = (appq.old.app_ports + 1) % 65536
                  /\ appq.res = 0

\* dpi_ep_get_app on an ingress session inserted a record
C39_Witness ==
    /\ appq.fn = "dpi_ep_get_app"
    /\ appq.s.ingress
    /\ AppqKey \notin DOMAIN appq.old.apps
    /\ AppqKey \in DOMAIN app_map[appq.s.ep]
    /\ appq.res = 0

(***************************************************************************)
(* Quarantine in non-TC mode.                                              *)
(***************************************************************************)
\* C31 as stated: in non-TC mode with ctx.quar set the L2 block ends every
\* call with 1, with no send_packet, lookup, decode, inspection or stats
\* update.
C31_Original ==
    [][(pc = "l2" /\ ~ctx.tc /\ ctx.quar) =>
          /\ pc' = "done"
          /\ ret' = 1
          /\ sent' = <<>>
          /\ ev' = <<"rcu_read_lock", "rcu_read_unlock">>]_vars

\* C31 as amended: in non-TC mode with ctx.quar set, every frame of at
\* least an Ethernet header whose destination MAC is not broadcast or
\* multicast is stopped: the call returns 1 with no send_packet, endpoint
\* lookup, decode, inspection or stats update.
C31_QuarantineStops ==
    [][(/\ pc = "l2" /\ ~ctx.tc /\ ctx.quar
        /\ th_packet.cap_len >= ETH_HLEN
        /\ ~is_mac_m_b_cast(eth'.h_dest)) =>
          /\ pc' = "done"
          /\ ret' = 1
          /\ retline' = 567
          /\ sent' = <<>>
          /\ ev' = <<"rcu_read_lock", "rcu_read_unlock">>
          /\ th_packet'.ep = NoEp]_vars

\* a unicast frame addressed to the endpoint is stopped by the quarantine
C31_Witness ==
    /\ pc = "done"
    /\ ~ctx.tc /\ ctx.quar
    /\ eth # NoEth
    /\ eth.h_dest = ctx.ep_mac
    /\ ret = 1
    /\ sent = <<>>

(***************************************************************************)
(* The fragment tracker decode may leave attached to the packet.           *)
(***************************************************************************)
\* C36: a call that returns with a fragment tracker attached has disposed
\* of it exactly once, by dpi_frag_send when the packet is accepted and by
\* dpi_frag_discard otherwise, in every capture mode.
C36_Original ==
    (pc = "done" /\ th_packet.frag_trac) =>
        /\ Count(ev, "dpi_frag_send") + Count(ev, "dpi_frag_discard") = 1
        /\ Count(ev, "dpi_frag_send") = 1 <=> (~tap /\ ~Blocked(action))

(***************************************************************************)
(* The endpoint of the packet at every use.                                *)
(***************************************************************************)
\* C37: whenever the call has updated the stats, applied the NFQ or
\* proxymesh direction heuristic or reached inspection, th_packet.ep (and
\* with it ep_stats, set by the same statements) is resolved; a frame
\* shorter than an Ethernet header, whose endpoint is never resolved, gets
\* to none of them.
C37_EndpointResolved ==
    /\ (\/ pc \in {"dir", "inspect", "verdict"}
        \/ Count(ev, "dpi_inc_stats_packet") > 0
        \/ Count(ev, "nfq_packet_direction") > 0
        \/ Count(ev, "proxymesh_packet_direction") > 0
        \/ Count(ev, "dpi_inspect_ethernet") > 0) => th_packet.ep # NoEp
    /\ (pc \in {"dir", "inspect", "verdict"} /\ th_packet.cap_len < ETH_HLEN)
          => FALSE

\* the NFQ heuristic has run on a packet of the promiscuous fallback, whose
\* endpoint is the dummy endpoint
C37_Witness ==
    /\ pc = "inspect"
    /\ ctx.nfq
    /\ th_packet.ep = DummyEp
    /\ Count(ev, "nfq_packet_direction") = 1
    /\ Count(ev, "dpi_inc_stats_packet") = 1

(***************************************************************************)
(* Which resolution rules a context can reach.                             *)
(***************************************************************************)
\* C40: with ctx.tc false the lookup key is a frame MAC equal to
\* ctx.ep_mac (the source tested first) or there is no lookup, nfq and a
\* proxymesh ep_mac notwithstanding, and the proxymesh heuristic is never
\* applied; with ctx.tc true and a frame MAC of the NeuV prefix the key is
\* that frame MAC, so the tapped-port, proxymesh and NFQ rules are reached
\* only with ctx.tc true and no NeuV prefix.
C40_RuleReach ==
    /\ (pc = "ep" /\ ~ctx.tc) =>
          /\ ~isproxymesh
          /\ lkey = (IF eth.h_source = ctx.ep_mac THEN eth.h_source
                     ELSE IF eth.h_dest = ctx.ep_mac THEN eth.h_dest
                     ELSE NoMac)
          /\ Count(ev, "rcu_map_lookup") = (IF lkey = NoMac THEN 0 ELSE 1)
    /\ (pc = "ep" /\ ctx.tc /\ (\/ cmp_mac_prefix(eth.h_source, MAC_PREFIX)
                                \/ cmp_mac_prefix(eth.h_dest, MAC_PREFIX))) =>
          /\ ~isproxymesh
          /\ lkey = (IF cmp_mac_prefix(eth.h_source, MAC_PREFIX)
                     THEN eth.h_source ELSE eth.h_dest)
    /\ ~ctx.tc => /\ ~isproxymesh
                  /\ Count(ev, "proxymesh_packet_direction") = 0

\* a non-TC context with nfq set and a proxymesh ep_mac receives a frame
\* that is neither from nor to ctx.ep_mac: no lookup is made
C40_Witness ==
    /\ pc = "ep"
    /\ ~ctx.tc /\ ctx.nfq
    /\ cmp_mac_prefix(ctx.ep_mac, PROXYMESH_MAC_PREFIX)
    /\ eth.h_source # ctx.ep_mac /\ eth.h_dest # ctx.ep_mac
    /\ lkey = NoMac
    /\ mac = NoMac

(***************************************************************************)
(* The packet counters.                                                    *)
(***************************************************************************)
Counted == Count(ev, "dpi_inc_stats_packet")

\* C34: a call counts the packet at most once, and exactly once when it
\* resolved a registered endpoint and decode did not drop the packet; the
\* step that counts leaves the cur_slot of the endpoint's stats and of
\* th_stats equal to ctx.stats_slot (caught up where they differed, no
\* other cur_slot touched), and the wing counted is "in" exactly when the
\* INGRESS flag is set at that step.
C34_CountedOnce ==
    [][/\ Counted' <= 1
       /\ (pc' = "done" /\ th_packet'.ep \in EPs /\ retline' # 670)
             => Counted' = 1
       /\ Counted' = Counted + 1 =>
             /\ cur_slot'[th_packet'.ep] = stats_slot
             /\ cur_slot'["th_stats"] = stats_slot
             /\ \A o \in StatsOwners \ {th_packet'.ep, "th_stats"} :
                   cur_slot'[o] = cur_slot[o]
             /\ th_packet'.all_metry = "in"
                   <=> DPI_PKT_FLAG_INGRESS \in th_packet'.flags
             /\ th_packet'.all_metry \in {"in", "out"}
       /\ cur_slot' # cur_slot => Counted' = Counted + 1]_vars

\* an egress packet of E2 was counted after the slot moved on: E2's stats
\* and th_stats are at the new slot, the other endpoints' are not
C34_Witness ==
    /\ Counted = 1
    /\ th_packet.ep = "E2"
    /\ th_packet.all_metry = "out"
    /\ stats_slot = 1
    /\ cur_slot = [o \in StatsOwners |->
                     IF o \in {"E2", "th_stats"} THEN 1 ELSE 0]

(***************************************************************************)
(* dpi_is_ip4_internal (lines 271-287), called on its own with every       *)
(* snapshot and address of the sets below.                                 *)
(***************************************************************************)
\* a & b of two values of n bits
RECURSIVE BitAnd(_, _, _)
BitAnd(a, b, n) ==
    IF n = 0 THEN 0
    ELSE (a % 2) * (b % 2) + 2 * BitAnd(a \div 2, b \div 2, n - 1)

\* ip & mask of two addresses in network byte order
And4(ip, mask) == [k \in 1 .. 4 |-> BitAnd(ip[k], mask[k], 8)]

\* the longest internal-subnet list of the model
MaxSubnets == 2

Ip4Other == <<10, 2, 1, 1>>
IsInternalIps == {Ip4Ep, Ip4Peer, Ip4Loop, Ip4Loop2, Ip4Mcast, Ip4Other}

\* entries (ip, mask): 10.1.0.0/16, 8.8.8.8/32, 10.0.0.0/9 and an entry
\* whose ip has bits outside its mask
SubnetEntries ==
    { [ip |-> <<10, 1, 0, 0>>, mask |-> <<255, 255, 0, 0>>],
      [ip |-> <<8, 8, 8, 8>>, mask |-> <<255, 255, 255, 255>>],
      [ip |-> <<10, 0, 0, 0>>, mask |-> <<255, 128, 0, 0>>],
      [ip |-> <<10, 2, 1, 1>>, mask |-> <<255, 255, 0, 0>>] }

\* th_internal_subnet4: NULL, or a list of count entries
Subnet4Snapshots ==
    {[null |-> TRUE, list |-> <<>>]}
    \cup {[null |-> FALSE, list |-> l] :
            l \in UNION {[1 .. n -> SubnetEntries] : n \in 0 .. MaxSubnets}}

\* lines 280-284: the loop over the list, from entry i on
RECURSIVE SubnetLoop(_, _, _)
SubnetLoop(list, ip, i) ==
    IF i > Len(list) THEN FALSE
    ELSE IF And4(ip, list[i].mask) = list[i].ip THEN TRUE
    ELSE SubnetLoop(list, ip, i + 1)

\* the function with the empty list left to the loop
dpi_is_ip4_internal_EmptyExternal(snap, ip) ==
    IF \/ snap.null
       \/ ip = htonl(INADDR_LOOPBACK)
       \/ IS_IN_LOOPBACK(ntohl(ip))
    THEN TRUE
    ELSE SubnetLoop(snap.list, ip, 1)

dpi_is_ip4_internal(snap, ip) ==
    IF \/ snap.null
       \/ Len(snap.list) = 0
       \/ ip = htonl(INADDR_LOOPBACK)
       \/ IS_IN_LOOPBACK(ntohl(ip))
    THEN TRUE
    ELSE SubnetLoop(snap.list, ip, 1)

notIpqVars == <<recvVars, actuatorVars, dirq, appVars, runVars, polVars,
                th_snap, th_timer, tmq, wk, shared_ep>>

IsInternalCall ==
    /\ ipq = NoIpq
    /\ \E snap \in Subnet4Snapshots, ip \in IsInternalIps :
          ipq' = [snap |-> snap, ip |-> ip,
                  res |-> dpi_is_ip4_internal(snap, ip)]
    /\ UNCHANGED notIpqVars

IsInternalReturn ==
    /\ ipq # NoIpq
    /\ ipq' = NoIpq
    /\ UNCHANGED notIpqVars

NextInternal ==
    \/ IsInternalCall
    \/ IsInternalReturn

SpecInternal == InitIdle /\ [][NextInternal]_vars

\* the bits set in an octet
BitsOf(n) == {i \in 0 .. 7 : (n \div (2 ^ i)) % 2 = 1}

\* (ip AND e.mask) = e.ip, bit by bit
EntryMatches(e, ip) ==
    \A k \in 1 .. 4 :
       /\ e.ip[k] \in 0 .. 255
       /\ BitsOf(e.ip[k]) = BitsOf(ip[k]) \cap BitsOf(e.mask[k])

\* C32: dpi_is_ip4_internal returns true when the snapshot is NULL or
\* empty or the address is a loopback address (127.x.x.x); otherwise it
\* returns true exactly when some entry of the snapshot satisfies
\* (ip AND mask) = entry ip.
C32_InternalClassification ==
    ipq # NoIpq =>
        ipq.res =
            IF \/ ipq.snap.null
               \/ Len(ipq.snap.list) = 0
               \/ ipq.ip[1] = 127
            THEN TRUE
            ELSE \E i \in 1 .. Len(ipq.snap.list) :
                    EntryMatches(ipq.snap.list[i], ipq.ip)

\* an address of no subnet is internal under the empty list
C32_Witness ==
    /\ ipq # NoIpq
    /\ ~ipq.snap.null
    /\ ipq.snap.list = <<>>
    /\ ipq.ip = Ip4Peer
    /\ ipq.res

(***************************************************************************)
(* dpi_timeout (lines 757-774) on one thread.  The timer wheel is          *)
(* utils/timer_wheel.h: a wheel is started from timer_wheel_start on, and  *)
(* timer_wheel_roll moves it to the tick given and returns the number of   *)
(* entries fired.                                                          *)
(***************************************************************************)
\* the last tick and the number of calls the model follows
MaxTick == 4
MaxCalls == 3

timer_wheel_started(w) == w.started

timer_wheel_start(w, now) ==
    [w EXCEPT !.started = TRUE, !.current = now,
              !.starts = Append(@, now)]

timer_wheel_roll(w, now) == [w EXCEPT !.current = now]

\* line 761 without the test: the wheel is started by every call
StartNeeded_Always(w) == TRUE

\* line 761: unlikely(!timer_wheel_started(&th_timer))
StartNeeded(w) == ~timer_wheel_started(w)

notTimerVars == <<recvVars, actuatorVars, dirq, appVars, runVars, polVars,
                  ipq, wk, shared_ep>>

\* line 759: th_snap.tick = tick; the clock does not go back
TimeoutEnter ==
    /\ tmq.pc = "idle"
    /\ tmq.calls < MaxCalls
    /\ \E tick \in th_snap.tick .. MaxTick :
          /\ th_snap' = [tick |-> tick]
          /\ tmq' = [pc |-> "start", tick |-> tick, calls |-> tmq.calls + 1,
                     ev |-> <<>>,
                     first |-> IF tmq.calls = 0 THEN <<tick>> ELSE tmq.first]
    /\ UNCHANGED <<th_timer, notTimerVars>>

\* lines 761-763
TimeoutStart ==
    /\ tmq.pc = "start"
    /\ IF StartNeeded(th_timer)
       THEN /\ th_timer' = timer_wheel_start(th_timer, tmq.tick)
            /\ tmq' = [tmq EXCEPT !.pc = "roll",
                                  !.ev = Append(@, "timer_wheel_start")]
       ELSE /\ th_timer' = th_timer
            /\ tmq' = [tmq EXCEPT !.pc = "roll"]
    /\ UNCHANGED <<th_snap, notTimerVars>>

\* lines 767-768
TimeoutRoll ==
    /\ tmq.pc = "roll"
    /\ th_timer' = timer_wheel_roll(th_timer, tmq.tick)
    /\ tmq' = [tmq EXCEPT !.pc = "leave",
                          !.ev = @ \o <<"rcu_read_lock", "timer_wheel_roll">>]
    /\ UNCHANGED <<th_snap, notTimerVars>>

\* lines 769-773: cnt is the number of entries the roll fired
TimeoutLeave ==
    /\ tmq.pc = "leave"
    /\ \E cnt \in 0 .. 1 :
          tmq' = [tmq EXCEPT
                    !.pc = "idle",
                    !.ev = @ \o <<"rcu_read_unlock">>
                             \o (IF cnt > 0 THEN <<"DEBUG_LOG">> ELSE <<>>)]
    /\ UNCHANGED <<th_snap, th_timer, notTimerVars>>

NextTimer ==
    \/ TimeoutEnter
    \/ TimeoutStart
    \/ TimeoutRoll
    \/ TimeoutLeave

SpecTimer == InitIdle /\ [][NextTimer]_vars

\* the RCU and roll events of the call's log
RcuRoll(e) ==
    SelectSeq(e, LAMBDA x : x \in {"rcu_read_lock", "timer_wheel_roll",
                                   "rcu_read_unlock"})

\* C35: over the calls of one thread the wheel is started once, by the
\* first call and with its tick, and not again; every call stores its tick
\* in th_snap and rolls the wheel to that tick between rcu_read_lock and
\* rcu_read_unlock.
C35_WheelStartedOnce ==
    /\ th_timer.starts = (IF th_timer.started THEN tmq.first ELSE <<>>)
    /\ th_timer.started <=> (tmq.calls > 1
                               \/ (tmq.calls = 1 /\ tmq.pc # "start"))
    /\ Count(tmq.ev, "timer_wheel_start")
          = (IF tmq.calls = 1 /\ tmq.pc # "start" THEN 1 ELSE 0)
    /\ tmq.calls > 0 => th_snap.tick = tmq.tick
    /\ (tmq.calls > 0 /\ tmq.pc = "idle") =>
          /\ RcuRoll(tmq.ev) = <<"rcu_read_lock", "timer_wheel_roll",
                                 "rcu_read_unlock">>
          /\ th_timer.current = tmq.tick
    /\ tmq.pc = "leave" =>
          /\ RcuRoll(tmq.ev) = <<"rcu_read_lock", "timer_wheel_roll">>
          /\ th_timer.current = tmq.tick
    /\ tmq.pc \in {"start", "roll"} => RcuRoll(tmq.ev) = <<>>

\* the third call has returned: the wheel started at the first tick and is
\* now at a later one
C35_Witness ==
    /\ tmq.calls = 3 /\ tmq.pc = "idle"
    /\ th_timer.starts = <<1>>
    /\ tmq.first = <<1>>
    /\ th_timer.current = 3
    /\ th_snap.tick = 3
    /\ tmq.ev = <<"rcu_read_lock", "timer_wheel_roll", "rcu_read_unlock">>

(***************************************************************************)
(* ep_app_map_locate (lines 128-148) run by two workers on one endpoint,   *)
(* statement by statement.  No lock is taken in the function or in its     *)
(* callers, "ep->app_ports ++" is a plain read and a plain write of a      *)
(* uint16_t, and rcu_map_add (utils/rcu_map.h) links the node it is given. *)
(***************************************************************************)
notRaceVars == <<recvVars, actuatorVars, dirq, appVars, runVars, polVars,
                 ipq, th_snap, th_timer, tmq>>

\* the nodes of ep->app_map with a key
NodesOf(port) == Count(shared_ep.nodes, port)

\* a worker enters with the server port of an ingress session
LocateEnter(w) ==
    /\ wk[w].pc = "idle"
    /\ \E port \in {PortDns, PortHigh} :
          wk' = [wk EXCEPT ![w] = [pc |-> "lookup", port |-> port,
                                   ports |-> 0]]
    /\ UNCHANGED <<shared_ep, notRaceVars>>

\* lines 132-133: app = dpi_ep_app_map_lookup(..); a record found is
\* returned
LocateLookup(w) ==
    /\ wk[w].pc = "lookup"
    /\ wk' = [wk EXCEPT ![w] = IF NodesOf(wk[w].port) > 0
                               THEN IdleWorker
                               ELSE [@ EXCEPT !.pc = "calloc"]]
    /\ UNCHANGED <<shared_ep, notRaceVars>>

\* lines 134-135: calloc, NULL is returned at once
LocateCalloc(w) ==
    /\ wk[w].pc = "calloc"
    /\ \E ok \in BOOLEAN :
          wk' = [wk EXCEPT ![w] = IF ok THEN [@ EXCEPT !.pc = "load"]
                                  ELSE IdleWorker]
    /\ UNCHANGED <<shared_ep, notRaceVars>>

\* line 137, the read of ep->app_ports
LocateLoad(w) ==
    /\ wk[w].pc = "load"
    /\ wk' = [wk EXCEPT ![w] = [@ EXCEPT !.pc = "store",
                                         !.ports = shared_ep.app_ports]]
    /\ UNCHANGED <<shared_ep, notRaceVars>>

\* line 137, the write of ep->app_ports
LocateStore(w) ==
    /\ wk[w].pc = "store"
    /\ shared_ep' = [shared_ep EXCEPT
                        !.app_ports = (wk[w].ports + 1) % 65536]
    /\ wk' = [wk EXCEPT ![w] = [@ EXCEPT !.pc = "add"]]
    /\ UNCHANGED notRaceVars

\* lines 139-142: the record is filled in and added to the map
LocateAdd(w) ==
    /\ wk[w].pc = "add"
    /\ shared_ep' = [shared_ep EXCEPT !.nodes = Append(@, wk[w].port)]
    /\ wk' = [wk EXCEPT ![w] = IdleWorker]
    /\ UNCHANGED notRaceVars

NextRace ==
    \/ \E w \in Workers : LocateEnter(w)
    \/ \E w \in Workers : LocateLookup(w)
    \/ \E w \in Workers : LocateCalloc(w)
    \/ \E w \in Workers : LocateLoad(w)
    \/ \E w \in Workers : LocateStore(w)
    \/ \E w \in Workers : LocateAdd(w)

SpecRace == InitIdle /\ [][NextRace]_vars

\* C38: under every interleaving the map holds at most one record for a
\* (port, ip_proto), and with no worker inside ep_app_map_locate app_ports
\* is the number of records the workers created.
C38_Original ==
    /\ \A port \in {PortDns, PortHigh} : NodesOf(port) <= 1
    /\ (\A w \in Workers : wk[w].pc = "idle") =>
          shared_ep.app_ports = Len(shared_ep.nodes)

=============================================================================
